---- MODULE Spec2Model ----
(***************************************************************************)
(* Turn orchestration and observation aggregation of the TextArena         *)
(* integration (src/ta_integration).  Two iterations of the game master    *)
(* live in the repository and both are modelled:                           *)
(*   "master"    - master.py: ClemObservationWrapper + play loop           *)
(*   "ta_master" - ta_master.py: perceive_context / step /                 *)
(*                 _check_move_validity                                    *)
(* The TextArena environment is an external library; it is modelled as a   *)
(* black box that, on every step, appends fragments to the players'        *)
(* observation lists, names the next acting player and says whether the    *)
(* episode is over.                                                        *)
(***************************************************************************)
EXTENDS Integers, Sequences, FiniteSets, TLC

\* ---------------------------------------------------------------- bounds
MaxPlayers == 2     \* configured players per episode: 1..MaxPlayers
MaxTurns == 4       \* environment steps per episode (the env's turn limit)
MaxObs == 2         \* fragments the environment emits after reset, all players together
MaxRecorded == 2    \* fragments fed to the wrapper directly, all players together
MaxWordLength == 21 \* letters of the longest word of the word-chain environment
RngMod == 16        \* states of the random generator
MaxScript == 2      \* steps of an environment trace played by both iterations
MaxPrompts == 4     \* calls of the players in an episode of the reference game

\* ------------------------------------------------------------- constants
GM == -1            \* players_by_id = { -1: "GM" }; sender id of the system

Marker == <<"attempted", "an", "invalid", "move">>

PlainText == <<"ok">>
InvalidText == <<"Player", "attempted", "an", "invalid", "move", "Reason">>
Texts == {PlainText, InvalidText}

\* `sub in text` on strings; texts are sequences of words
Contains(text, sub) ==
    \E i \in 1..(Len(text) - Len(sub) + 1) :
        SubSeq(text, i, i + Len(sub) - 1) = sub

\* A fragment is the tuple (sender_id, message, observation_type)
Frag(sender, text) ==
    <<sender, text, IF sender = GM THEN "GAME_MESSAGE" ELSE "PLAYER_ACTION">>

PromptFrag == <<GM, PlainText, "PROMPT">>

VARIABLES
    iteration,            \* which game master runs the episode
    numPlayers,           \* len(self.player_models)
    numSpecs,             \* len(self.game_spec.player_specs)
    pc,                   \* position of the harness / play loop
    \* --- environment (TextArena state)
    current_player_id,    \* env.state.current_player_id
    observations,         \* env.state.observations: player id -> fragments
    fetched,              \* per player: fragments already handed out by env.get_observation()
    \* --- game master
    players_by_id,        \* keys of self.players_by_id
    request_violation,
    played_in_turn,
    last_player,          \* None is modelled as GM - 1
    started,
    done,
    checked_observations, \* ta_master: per-player high-water mark
    \* --- ClemObservationWrapper (master.py) and the play loop's locals
    temp_observations,
    is_initial_call,      \* Player._is_initial_call
    player_id,            \* play(): player_id
    context,              \* play(): context
    \* --- logging sink
    rounds,               \* number of log_next_round() calls
    violations,           \* number of count_request_violation() calls
    \* --- history
    turns,                \* env.step calls answered so far
    step_calls,           \* env.step calls made so far, answered or not
    acted,                \* players that perceived a context since the last log_next_round
    alternating,          \* every step so far handed the turn to another player, none was flagged
    inspections,          \* per player, per fragment: validity checks that read it
    recorded,             \* per player: fragments appended to its buffer, in order
    delivered,            \* per player: lines handed out in contexts, in order
    lastCall,             \* the wrapper call that produced `context`
    \* --- setup
    seed,                 \* kwargs['seed']
    override_variables,   \* kwargs['override_variables']: path -> expression, in dict order
    word_list,            \* env.word_list (words stand for their rank in the alphabet)
    reset_word_list,      \* history: env.word_list as env.reset() found it
    setup_calls,          \* history: the calls setup() made, in order
    made_word_list,       \* history: env.word_list as ta.make() built it
    family,               \* the class of the game master (submasters.py)
    \* --- end of the episode
    closes,               \* number of env.close() calls
    after_game,           \* number of _on_after_game() invocations
    rewards,              \* what env.close() returned
    logged,               \* the log_key(key, value) calls, in order
    final_keys,           \* self.final_keys
    last_move_invalid,    \* the argument log_success was called with
    \* --- the random module and the programmatic players
    rng,                  \* state of the process-wide generator of `random`
    custom_response,      \* player_spec['custom_response'] (<<>> when not configured)
    episode,              \* history: which episode of the process is running
    trace,                \* history: <<player, reply, round boundary>> of each turn
    earlier,              \* history: trace and log of the episode before this one
    script,               \* the answers the environment gives, step by step
    \* --- the episode scorers
    scorer,               \* the class of the scorer
    episode_interactions, \* the episode record handed to the scorer
    scores,               \* the log_episode_score(key, value) calls, in order
    \* --- the reference game (multimodal_referencegame/master.py)
    target_image_number,  \* game_instance['target_image_number']
    replies,              \* what the two players' models answer when called
    terminate,            \* self.terminate
    ref_aborted,          \* self.aborted
    ref_success,          \* self.success
    aborted_at_player,    \* self.aborted_at_player
    follower_context,     \* the context set for the instruction follower
    prompted              \* history: the players called, in order

vars == <<iteration, numPlayers, numSpecs, pc, current_player_id, observations, fetched,
          players_by_id, request_violation, played_in_turn, last_player, started,
          done, checked_observations, temp_observations, is_initial_call,
          player_id, context, rounds, violations, turns, step_calls, acted, alternating,
          inspections, recorded, delivered, lastCall, seed, override_variables, word_list,
          reset_word_list, setup_calls, made_word_list, family, closes, after_game,
          rewards, logged, final_keys, last_move_invalid, rng, custom_response,
          episode, trace, earlier, script, scorer, episode_interactions, scores,
          target_image_number, replies, terminate, ref_aborted, ref_success,
          aborted_at_player, follower_context, prompted>>

replayVars == <<rng, custom_response, episode, trace, earlier>>
scorerVars == <<scorer, episode_interactions, scores>>
referenceVars == <<target_image_number, replies, terminate, ref_aborted, ref_success,
                   aborted_at_player, follower_context, prompted>>
\* what the episodes of the TextArena game masters leave alone
otherVars == <<replayVars, scorerVars, referenceVars>>
envVars == <<current_player_id, observations, fetched>>
wrapperVars == <<temp_observations, context, recorded, delivered, lastCall>>
configVars == <<iteration, numPlayers, numSpecs, seed, override_variables, made_word_list, family,
               script>>
metricVars == <<closes, after_game, rewards, logged, final_keys, last_move_invalid>>
setupVars == <<word_list, reset_word_list, setup_calls>>

None == GM - 1
Players == 0..(numPlayers - 1)

\* how many passes the loop over zip(player_specs, player_models) makes
Zipped(specs, models) == IF specs < models THEN specs ELSE models

\* enumerate(zip(self.game_spec.player_specs, self.player_models)): the ids
\* the loop of setup() runs over
Proxies == 0..(Zipped(numSpecs, numPlayers) - 1)
WordLengths == 1..MaxWordLength
NoRewards == [success |-> <<>>, invalid_move |-> <<>>]
NoContext == [role |-> "none", content |-> [preamble |-> FALSE, lines |-> <<>>]]
NoCall == [op |-> "none", player |-> None, form |-> "none", raised |-> FALSE,
           repeat |-> FALSE, initial |-> FALSE]

\* ------------------------------------------------------------ environment
\* What a step may append to a player's list: system messages, plain ones
\* and invalid-move notices.  (Who sent a fragment plays no part in the turn
\* logic; fragments sent by players are fed to the wrapper in SpecWrapper.)
StepFragments(actor) == {Frag(GM, t) : t \in Texts}

\* the batches of at most `room` fragments
Batches(actor, room) == UNION {[1..n -> StepFragments(actor)] : n \in 0..room}

\* one batch for each of the players 0..n-1, at most `room` fragments in all
RECURSIVE Distributions(_, _, _)
Distributions(actor, n, room) ==
    IF n = 0 THEN {<<>>}
    ELSE UNION {{((n - 1) :> b) @@ rest :
                    rest \in Distributions(actor, n - 1, room - Len(b))} :
                b \in Batches(actor, room)}

\* ----------------------------------------------------------------- setup
\* The game master as its constructor leaves it, for any configuration
Constructed ==
    /\ iteration \in {"master", "ta_master"}
    /\ numPlayers \in 1..MaxPlayers
    /\ numSpecs \in 1..MaxPlayers
    /\ pc = "init"
    /\ current_player_id = 0
    /\ observations = <<>>
    /\ fetched = <<>>
    /\ players_by_id = {GM}
    /\ request_violation = FALSE
    /\ played_in_turn = {}
    /\ last_player = None
    /\ started = FALSE
    /\ done = FALSE
    /\ checked_observations = <<>>
    /\ temp_observations = <<>>
    /\ is_initial_call = <<>>
    /\ player_id = None
    /\ context = NoContext
    /\ rounds = 0
    /\ violations = 0
    /\ turns = 0
    /\ step_calls = 0
    /\ acted = {}
    /\ alternating = TRUE
    /\ inspections = <<>>
    /\ recorded = <<>>
    /\ delivered = <<>>
    /\ lastCall = NoCall
    /\ reset_word_list = <<>>
    /\ setup_calls = <<>>
    /\ closes = 0
    /\ after_game = 0
    /\ rewards = NoRewards
    /\ logged = <<>>
    /\ final_keys = <<>>
    /\ last_move_invalid = FALSE


\* No replay is under way: the generator and the programmatic replies play
\* no part in the episode
ReplayIdle ==
    /\ rng = 0
    /\ custom_response = <<>>
    /\ episode = 1
    /\ trace = <<>>
    /\ earlier = [trace |-> <<>>, logged |-> <<>>]
    /\ script = <<>>

\* No scorer has been given an episode record
ScorerIdle ==
    /\ scorer = "none"
    /\ episode_interactions = <<>>
    /\ scores = <<>>

\* No reference game is being played
ReferenceIdle ==
    /\ target_image_number = 0
    /\ replies = <<>>
    /\ terminate = FALSE
    /\ ref_aborted = FALSE
    /\ ref_success = FALSE
    /\ aborted_at_player = None
    /\ follower_context = <<>>
    /\ prompted = <<>>

\* An episode of the default game master, without overrides
Init ==
    /\ Constructed
    /\ ReplayIdle
    /\ ScorerIdle
    /\ ReferenceIdle
    /\ numSpecs = numPlayers
    /\ seed = 0
    /\ override_variables = <<>>
    /\ word_list = <<2, 1>>
    /\ made_word_list = word_list
    /\ family = "TextArenaGameMaster"

\* Insert x into the ascending list s
RECURSIVE Insert(_, _)
Insert(x, s) ==
    IF s = <<>> THEN <<x>>
    ELSE IF x <= Head(s) THEN <<x>> \o s
    ELSE <<Head(s)>> \o Insert(x, Tail(s))

\* sorted(x)
RECURSIVE Sorted(_)
Sorted(s) == IF s = <<>> THEN <<>> ELSE Insert(Head(s), Sorted(Tail(s)))

\* x[::-1]
RECURSIVE Reversed(_)
Reversed(s) == IF s = <<>> THEN <<>> ELSE Reversed(Tail(s)) \o <<Head(s)>>

\* The override expressions of the configurations considered
SortExpr == "lambda x: sorted(x)"
ReverseExpr == "lambda x: x[::-1]"
BareExpr == "sorted(x)"
Expressions == {SortExpr, ReverseExpr, BareExpr}

\* expression.startswith('lambda')
IsLambda(expression) == expression \in {SortExpr, ReverseExpr}

\* eval(expression)(current_value)
EvalLambda(expression, current_value) ==
    IF expression = SortExpr THEN Sorted(current_value) ELSE Reversed(current_value)

\* The attribute paths of the configurations considered; getattr resolves the
\* first and raises AttributeError on the second
WordListPath == "env.word_list"
MissingPath == "env.no_such_attribute"
Paths == {WordListPath, MissingPath}

Resolves(variable_path) == variable_path = WordListPath

\* One pass of the loop body of _apply_variable_overrides: the try block
\* either sets the attribute or raises, and the except clause goes on
ApplyOverride(wl, override) ==
    IF Resolves(override.path) /\ IsLambda(override.expression)
    THEN EvalLambda(override.expression, wl)
    ELSE wl

\* the except clause is reached: logger.error(...)
OverrideFails(override) == ~(Resolves(override.path) /\ IsLambda(override.expression))

\* _apply_variable_overrides with the try around the whole loop: the first
\* failure ends it
RECURSIVE ApplyVariableOverrides_StopAtFailure(_, _)
ApplyVariableOverrides_StopAtFailure(wl, overrides) ==
    IF overrides = <<>> \/ OverrideFails(Head(overrides)) THEN wl
    ELSE ApplyVariableOverrides_StopAtFailure(ApplyOverride(wl, Head(overrides)),
                                              Tail(overrides))

RECURSIVE ApplyVariableOverrides(_, _)
ApplyVariableOverrides(wl, overrides) ==
    IF overrides = <<>> THEN wl
    ELSE ApplyVariableOverrides(ApplyOverride(wl, Head(overrides)), Tail(overrides))

\* history: one pass of the loop per override, and the logger.error of the
\* passes that failed
RECURSIVE OverrideCallsFrom(_, _)
OverrideCallsFrom(overrides, i) ==
    IF i > Len(overrides) THEN <<>>
    ELSE <<(<<"override", i>>)>>
            \o (IF OverrideFails(overrides[i]) THEN <<(<<"log_error", i>>)>> ELSE <<>>)
            \o OverrideCallsFrom(overrides, i + 1)

OverrideCalls(overrides) == OverrideCallsFrom(overrides, 1)
AddPlayerCalls(n) == [i \in 1..n |-> <<"add_player", i - 1>>]

\* master.py setup() with the overrides applied after the reset
MasterSetupCalls_OverridesLate(overrides, n) ==
    <<(<<"seed", 0>>), (<<"make", 0>>), (<<"wrap", 0>>), (<<"reset", 0>>)>>
        \o OverrideCalls(overrides) \o AddPlayerCalls(n)

\* master.py setup(): seed, make, overrides, wrap, reset, add_player per spec
MasterSetupCalls(overrides, n) ==
    <<(<<"seed", 0>>), (<<"make", 0>>)>> \o OverrideCalls(overrides)
        \o <<(<<"wrap", 0>>), (<<"reset", 0>>)>> \o AddPlayerCalls(n)

\* ta_master.py setup(): make, wrap, _override_variables hook, seed, reset,
\* add_player per spec
TaMasterSetupCalls(n) ==
    <<(<<"make", 0>>), (<<"wrap", 0>>), (<<"override_hook", 0>>), (<<"seed", 0>>),
      (<<"reset", 0>>)>> \o AddPlayerCalls(n)

\* history: env.word_list when the reset of `calls` runs - the overrides
\* whose call came before it have been applied, in order
RECURSIVE WordListAtReset(_, _, _)
WordListAtReset(calls, wl, overrides) ==
    IF calls = <<>> \/ Head(calls)[1] = "reset" THEN wl
    ELSE IF Head(calls)[1] = "override"
    THEN WordListAtReset(Tail(calls), ApplyOverride(wl, overrides[Head(calls)[2]]),
                         overrides)
    ELSE WordListAtReset(Tail(calls), wl, overrides)

\* The classes of submasters.py and their base
Base == "TextArenaGameMaster"
WordChains == "WordChainsMaster"
SinglePlayer == "SinglePlayerMaster"
TwoPlayer == "TwoPlayerMaster"
Families == {Base, WordChains, SinglePlayer, TwoPlayer}

\* The hook setup() of ta_master.py calls before seeding and reset
SetupHook == "_override_variables"

\* What a hook of class cls does to env.word_list: _override_variables is the
\* placeholder of the base class (pass), which no class of submasters.py
\* overrides; WordChainsMaster defines _on_before_reset, which sorts
HookBody(cls, hook, wl) ==
    IF hook = "_on_before_reset" /\ cls = WordChains THEN Sorted(wl) ELSE wl

\* env.reset(): every player gets its initial prompt; player `first` begins
EnvReset(first) ==
    /\ observations' = [p \in Players |-> <<PromptFrag>>]
    /\ fetched' = [p \in Players |-> 0]
    /\ inspections' = [p \in Players |-> <<0>>]
    /\ current_player_id' = first
    /\ reset_word_list' = WordListAtReset(setup_calls', word_list, override_variables)

\* add_player with `self.players_by_id[player_id + 1] = player`
AddPlayers_OneBased ==
    /\ players_by_id' = {GM} \cup {p + 1 : p \in Proxies}
    /\ is_initial_call' = [p \in Proxies |-> TRUE]
    /\ recorded' = [p \in Players |-> <<>>]
    /\ delivered' = [p \in Players |-> <<>>]

\* add_player for every player spec, in declaration order
AddPlayers ==
    /\ players_by_id' = {GM} \cup Proxies
    /\ is_initial_call' = [p \in Proxies |-> TRUE]
    /\ recorded' = [p \in Players |-> <<>>]
    /\ delivered' = [p \in Players |-> <<>>]

M_Setup ==
    /\ iteration = "master"
    /\ pc = "init"
    /\ word_list' = ApplyVariableOverrides(word_list, override_variables)
    /\ setup_calls' = MasterSetupCalls(override_variables, Zipped(numSpecs, numPlayers))
    /\ EnvReset(0)
    /\ AddPlayers
    /\ pc' = "start"
    /\ UNCHANGED <<step_calls, otherVars, configVars, metricVars, request_violation, played_in_turn, last_player,
                   started, done, checked_observations, temp_observations,
                   player_id, context, rounds, violations, turns, acted,
                   alternating, lastCall>>

TA_Setup ==
    /\ iteration = "ta_master"
    /\ pc = "init"
    /\ started' = TRUE
    /\ word_list' = HookBody(family, SetupHook, word_list)
    /\ setup_calls' = TaMasterSetupCalls(Zipped(numSpecs, numPlayers))
    /\ EnvReset(0)
    /\ AddPlayers
    /\ checked_observations' = [p \in Proxies |-> 0]
    /\ IF family = WordChains
       THEN \E length \in WordLengths :
                final_keys' = ("start_word_length" :> length)
       ELSE final_keys' = final_keys
    /\ UNCHANGED <<closes, after_game, rewards, logged, last_move_invalid>>
    /\ pc' = "observe"
    /\ UNCHANGED <<step_calls, otherVars, configVars, request_violation, played_in_turn, last_player,
                   done, temp_observations, player_id, context, rounds,
                   violations, turns, acted, alternating, lastCall>>


\* ------------------------------------------------- environment: one step
\* env.step(action) on behalf of `actor`: the black box appends a batch to
\* every player's list and names the next player.  MaxObs bounds what it
\* emits over the episode.
RECURSIVE TotalLen(_, _)
TotalLen(adds, n) == IF n = 0 THEN 0 ELSE Len(adds[n - 1]) + TotalLen(adds, n - 1)

\* fragments emitted since reset (reset gave every player one prompt)
Emitted == TotalLen(observations, numPlayers) - numPlayers

StepOutcomes(actor) == Distributions(actor, numPlayers, MaxObs - Emitted)

\* The environment ends the episode at its turn limit at the latest
MayContinue(d) == d \/ turns + 1 < MaxTurns

Appended(adds) == [p \in Players |-> observations[p] \o adds[p]]

Zeros(n) == [i \in 1..n |-> 0]

\* ------------------------------------------------------ end of the episode
\* Numbers that may be fractions (rewards, means, scores) and the flags logged
\* with them are counted in hundredths: 1 is One, 0.4 is 40
One == 100

\* np.nan
NaN == -(One * One * One)

\* clemcore.clemgame.metrics
METRIC_ABORTED == "Aborted"
METRIC_SUCCESS == "Success"
METRIC_LOSE == "Lose"
BENCH_SCORE == "Main Score"

\* sum(values) over the players 0..n-1
RECURSIVE SumTo(_, _)
SumTo(values, n) == IF n = 0 THEN 0 ELSE values[n - 1] + SumTo(values, n - 1)

\* np.mean(list(player_success.values())), sum(...) / len(...)
Mean(values, n) == SumTo(values, n) \div n

\* env.close() is the environment's: the payloads considered give every
\* player the same reward and flag an invalid move for the last player or
\* for nobody
ClosePayloads(last) ==
    {[success |-> [p \in Players |-> s],
      invalid_move |-> [p \in Players |-> inv /\ p = last]] :
        s \in {0, One}, inv \in BOOLEAN}

\* step(): `if not done: ... else: self._on_after_game()` run for every step
OnAfterGameRuns_EveryStep(d) == TRUE

\* step(): `if not done: ... else: self._on_after_game()`
OnAfterGameRuns(d) == d

\* play(): a loop that goes on after done
LoopContinues_Always(d) == TRUE

\* play(): `while not done`
LoopContinues(d) == ~d

\* what env.close() returns when _on_after_game runs
Closing(d, last) == IF OnAfterGameRuns(d) THEN ClosePayloads(last) ELSE {NoRewards}

\* ta_master.py _log_metrics(rewards): pass
LogMetrics(cls, payload) == <<>>

\* ta_master.py _on_after_game: the log_key calls it makes
TaOnAfterGame(cls, payload) ==
    <<(<<"ta_rewards", payload>>)>> \o LogMetrics(cls, payload)

\* master.py _on_after_game: the players flagged in the loop over players_by_id
FlaggedPlayers(payload, last) ==
    {p \in Players : payload.invalid_move[p] /\ last = p}

\* master.py _on_after_game: the log_key calls it makes
MasterOnAfterGame(payload, last, n) ==
    LET success == Mean(payload.success, n)
        aborted == IF FlaggedPlayers(payload, last) /= {} THEN One ELSE 0
    IN  <<(<<"rewards", payload>>),
          (<<METRIC_ABORTED, aborted>>),
          (<<METRIC_SUCCESS, success>>),
          (<<METRIC_LOSE, IF success = One THEN 0 ELSE One>>),
          (<<BENCH_SCORE, SumTo(payload.success, n) \div n>>)>>

\* ----------------------------------------------------- ta_master.py: play
\* _check_move_validity reads the environment's current player
CheckedPlayer(current_after_step, actor) == current_after_step

\* the slice taken from the start of the list instead of the high-water mark
LastObservations_FromStart(obs, checked, pid) == obs[pid]

\* self.env.state.observations[player_id][checked_observations:]
LastObservations(obs, checked, pid) ==
    SubSeq(obs[pid], checked[pid] + 1, Len(obs[pid]))

\* observation and "attempted an invalid move" in observation[1]
HasMarker(observation) == observation /= <<>> /\ Contains(observation[2], Marker)

\* the for loop of _check_move_validity: True at the first marker fragment
MoveInvalid(last_observations) ==
    \E i \in 1..Len(last_observations) : HasMarker(last_observations[i])

\* how many fragments that loop reads before it returns
ScanLength(last_observations) ==
    IF MoveInvalid(last_observations)
    THEN CHOOSE i \in 1..Len(last_observations) :
            /\ HasMarker(last_observations[i])
            /\ \A j \in 1..(i - 1) : ~HasMarker(last_observations[j])
    ELSE Len(last_observations)

\* the flag never reset: once raised it stays raised
RequestViolationAfter_Sticky(previous, detected) == previous \/ detected

\* self.request_violation after a turn: step() sets it to False and then to
\* what the check of this turn's observation found (the wrapper of master.py
\* does the same in observation(): False first, True on a marker)
RequestViolationAfter(previous, detected) == detected

\* step() and play() testing for a round boundary after the last step too
RoundTestRuns_AlsoAtTheEnd(d) == TRUE

\* step(): `if not done: if self._start_next_round(): ...`; play() of
\* master.py: `if not done: ... if len(played_in_turn) == ...`
RoundTestRuns(d) == ~d

\* _start_next_round without its request-violation test
StartNextRound_IgnoringViolation(played, by_id, violation) ==
    Cardinality(played) = Cardinality(by_id) - 1

\* _start_next_round satisfied by any player that has played
StartNextRound_AnyPlayed(played, by_id, violation) ==
    Cardinality(played) >= 1 /\ ~violation

\* _start_next_round
StartNextRound(played, by_id, violation) ==
    Cardinality(played) = Cardinality(by_id) - 1 /\ ~violation

\* _prepare_next_round that forgets to clear the set
PrepareNextRound_KeepingSet(played) == played

\* _prepare_next_round: self.played_in_turn.clear()
PrepareNextRound(played) == {}

\* history: the fragments of `pid` a check read, counted once more
Inspect(insp, adds, pid, last_observations) ==
    [p \in Players |->
        LET grown == insp[p] \o Zeros(Len(adds[p]))
            from == Len(grown) - Len(last_observations)
        IN  IF p /= pid THEN grown
            ELSE [i \in 1..Len(grown) |->
                    IF i > from /\ i <= from + ScanLength(last_observations)
                    THEN grown[i] + 1 ELSE grown[i]]]

\* the bookkeeping left to the moment the response comes back
PerceiveContext_AtResponse(played, last, ta_id) ==
    [played_in_turn |-> played, last_player |-> last]

\* TextArenaPlayer.perceive_context: the bookkeeping it does on the game
\* master before the context goes to the model (master.py does the same at
\* the top of its loop, before it calls the player)
PerceiveContext(played, last, ta_id) ==
    [played_in_turn |-> played \cup {ta_id}, last_player |-> ta_id]

\* the player's model call raises: play() propagates the failure
TA_RespondFails ==
    /\ iteration = "ta_master"
    /\ pc = "respond"
    /\ pc' = "error"
    /\ UNCHANGED <<step_calls, otherVars, configVars, metricVars, setupVars, envVars, players_by_id, request_violation,
                   played_in_turn, last_player, started, done, checked_observations,
                   is_initial_call, player_id, wrapperVars, rounds, violations,
                   turns, acted, alternating, inspections>>

\* play() with the call of step() in a loop that tries again when it raises
AfterStepRaises_Retry(at) == at

\* play() has no handler around self.step(response): an exception of
\* env.step leaves play()
AfterStepRaises(at) == "error"

\* env.step raises inside step(): the flag was reset, nothing else happened
TA_StepRaises ==
    /\ iteration = "ta_master"
    /\ pc = "respond"
    /\ request_violation' = FALSE
    /\ is_initial_call' = [is_initial_call EXCEPT ![current_player_id] = FALSE]
    /\ pc' = AfterStepRaises(pc)
    /\ step_calls' = step_calls + 1
    /\ UNCHANGED <<otherVars, configVars, metricVars, setupVars, envVars, players_by_id, played_in_turn,
                   last_player, started, done, checked_observations, player_id,
                   wrapperVars, rounds, violations, turns, acted, alternating,
                   inspections>>

\* the player responds and step(response) runs to its end
TA_Step ==
    /\ iteration = "ta_master"
    /\ pc = "respond"
    /\ \E adds \in StepOutcomes(current_player_id), nxt \in Players, d \in BOOLEAN :
      \E payload \in Closing(d, last_player) :
        LET actor == current_player_id
            obs == Appended(adds)
            pid == CheckedPlayer(nxt, actor)
            last_observations == LastObservations(obs, checked_observations, pid)
            violation == MoveInvalid(last_observations)
            flag == RequestViolationAfter(request_violation, violation)
            boundary == RoundTestRuns(d)
                            /\ StartNextRound(played_in_turn, players_by_id, flag)
        IN  /\ MayContinue(d)
            /\ observations' = obs
            /\ current_player_id' = nxt
            /\ checked_observations' =
                   [checked_observations EXCEPT ![pid] = Len(obs[pid])]
            /\ request_violation' = flag
            /\ violations' = violations + (IF violation THEN 1 ELSE 0)
            /\ done' = d
            /\ played_in_turn' =
                   IF boundary THEN PrepareNextRound(played_in_turn) ELSE played_in_turn
            /\ rounds' = IF boundary THEN rounds + 1 ELSE rounds
            /\ acted' = IF boundary THEN {} ELSE acted
            /\ is_initial_call' = [is_initial_call EXCEPT ![actor] = FALSE]
            /\ turns' = turns + 1
            /\ alternating' = (alternating /\ nxt /= actor /\ ~violation)
            /\ inspections' = Inspect(inspections, adds, pid, last_observations)
            /\ IF OnAfterGameRuns(d)
               THEN /\ closes' = closes + 1
                    /\ after_game' = after_game + 1
                    /\ rewards' = payload
                    /\ logged' = logged \o TaOnAfterGame(family, payload)
               ELSE UNCHANGED <<closes, after_game, rewards, logged>>
            /\ pc' = IF LoopContinues(d) THEN "observe" ELSE "done"
    /\ step_calls' = step_calls + 1
    /\ UNCHANGED <<otherVars, configVars, setupVars, fetched, players_by_id, last_player,
                   started, player_id, wrapperVars, final_keys, last_move_invalid>>


\* ------------------------------------- master.py: ClemObservationWrapper
\* self.env.state.role_mapping.get(sender_id, f"Player {sender_id}")
SenderName(sender_id) ==
    IF sender_id = GM THEN <<"GAME", GM>> ELSE <<"Player", sender_id>>

\* the loop of _convert_obs_to_context putting each new line first
RECURSIVE ContextLines_NewestFirst(_, _)
ContextLines_NewestFirst(buffer, pid) ==
    IF buffer = <<>> THEN <<>>
    ELSE ContextLines_NewestFirst(Tail(buffer), pid)
            \o (IF Head(buffer)[1] /= pid
                THEN <<(<<SenderName(Head(buffer)[1]), Head(buffer)[2]>>)>>
                ELSE <<>>)

\* the loop of _convert_obs_to_context without its `sender_id != player_id`
\* test: the player's own fragments come back to it
ContextLines_WithEcho(buffer, pid) ==
    [i \in 1..Len(buffer) |-> <<SenderName(buffer[i][1]), buffer[i][2]>>]

\* the loop of _convert_obs_to_context: one "[sender] message" line per
\* buffered fragment whose sender is not the player
RECURSIVE ContextLines(_, _)
ContextLines(buffer, pid) ==
    IF buffer = <<>> THEN <<>>
    ELSE (IF Head(buffer)[1] /= pid
          THEN <<(<<SenderName(Head(buffer)[1]), Head(buffer)[2]>>)>>
          ELSE <<>>) \o ContextLines(Tail(buffer), pid)

\* the content string that never starts with the standard prompt
ContextContent_WithoutPreamble(pid, temp, initial) ==
    [preamble |-> FALSE,
     lines |-> IF pid \in DOMAIN temp THEN ContextLines(temp[pid], pid) ELSE <<>>]

\* the content string: the standard prompt on a player's initial call, then
\* the lines
ContextContent(pid, temp, initial) ==
    [preamble |-> initial[pid],
     lines |-> IF pid \in DOMAIN temp THEN ContextLines(temp[pid], pid) ELSE <<>>]

\* a buffer that is not emptied after the merge
ClearedBuffer_Kept(buffer) == buffer

\* self.temp_observations[player_id] = []
ClearedBuffer(buffer) == <<>>

\* _convert_obs_to_context returning its text under the role "system"
ConvertObsToContext_AsSystem(pid, temp, initial) ==
    [context |-> [role |-> "system", content |-> ContextContent(pid, temp, initial)],
     temp |-> [q \in DOMAIN temp \cup {pid} |->
                  IF q = pid
                  THEN ClearedBuffer(IF pid \in DOMAIN temp THEN temp[pid] ELSE <<>>)
                  ELSE temp[q]]]

\* _convert_obs_to_context: the context it returns and the buffers it leaves
ConvertObsToContext(pid, temp, initial) ==
    [context |-> [role |-> "user", content |-> ContextContent(pid, temp, initial)],
     temp |-> [q \in DOMAIN temp \cup {pid} |->
                  IF q = pid
                  THEN ClearedBuffer(IF pid \in DOMAIN temp THEN temp[pid] ELSE <<>>)
                  ELSE temp[q]]]

\* The three shapes of the observation argument
NoneObs == [type |-> "none", text |-> <<>>, frags |-> <<>>]
StrObs(text) == [type |-> "str", text |-> text, frags |-> <<>>]
SeqObs(frags) == [type |-> "seq", text |-> <<>>, frags |-> frags]

\* "attempted an invalid move" in observation[-1][1]
LastHasMarker(frags) == Contains(frags[Len(frags)][2], Marker)

\* temp_observations with the key player_id present
WithKey(temp, pid) ==
    [q \in DOMAIN temp \cup {pid} |-> IF q \in DOMAIN temp THEN temp[q] ELSE <<>>]

\* observation(player_id, observation): what it leaves behind
\*   raised    - observation[-1] of an empty sequence raises IndexError
\*   violation - the value of game_master.request_violation afterwards
\*   counted   - count_request_violation() calls made
Observation(pid, observation, temp, initial) ==
    IF observation.type = "none"
    THEN [raised |-> FALSE, violation |-> FALSE, counted |-> 0]
            @@ ConvertObsToContext(pid, temp, initial)
    ELSE IF observation.type = "str"
    THEN [raised |-> FALSE, violation |-> FALSE, counted |-> 0]
            @@ ConvertObsToContext(pid,
                   [WithKey(temp, pid) EXCEPT
                       ![pid] = Append(@, <<GM, observation.text, "PROMPT">>)],
                   initial)
    ELSE IF observation.frags = <<>>
    THEN [raised |-> TRUE, violation |-> FALSE, counted |-> 0,
          context |-> NoContext, temp |-> WithKey(temp, pid)]
    ELSE [raised |-> FALSE,
          violation |-> LastHasMarker(observation.frags),
          counted |-> IF LastHasMarker(observation.frags) THEN 1 ELSE 0]
            @@ ConvertObsToContext(pid,
                   [WithKey(temp, pid) EXCEPT ![pid] = @ \o observation.frags],
                   initial)

\* env.get_observation(): the fragments of the current player not handed out
\* yet, as a sequence; a lone system message may come as a plain string
Pending(obs, got, pid) == SubSeq(obs[pid], got[pid] + 1, Len(obs[pid]))

ObservationForms(pending) ==
    {SeqObs(pending)} \cup
    (IF Len(pending) = 1 /\ pending[1][1] = GM THEN {StrObs(pending[1][2])} ELSE {})

\* history: what a call of observation() appended to the buffer
RecordedBy(observation) ==
    IF observation.type = "str" THEN <<(<<GM, observation.text, "PROMPT">>)>>
    ELSE observation.frags

\* One call observation(pid, observation) of the wrapper, and its trace in
\* the history variables
CallObservation(pid, observation) ==
    LET r == Observation(pid, observation, temp_observations, is_initial_call')
    IN  /\ context' = IF r.raised THEN context ELSE r.context
        /\ temp_observations' = r.temp
        /\ request_violation' = RequestViolationAfter(request_violation, r.violation)
        /\ violations' = violations + r.counted
        /\ recorded' = [recorded EXCEPT ![pid] = @ \o RecordedBy(observation)]
        /\ delivered' = IF r.raised THEN delivered
                        ELSE [delivered EXCEPT ![pid] = @ \o r.context.content.lines]
        /\ lastCall' = [op |-> "observation", player |-> pid, form |-> observation.type,
                        raised |-> r.raised,
                        repeat |-> (lastCall.op = "observation" /\ lastCall.player = pid),
                        initial |-> is_initial_call'[pid]]

\* ObservationWrapper.get_observation: the environment's observation of its
\* current player goes through observation(); `form` is the shape the
\* environment chose for it
GetObservation(obs, form) ==
    LET pid == current_player_id'
    IN  /\ fetched' = [fetched EXCEPT ![pid] = Len(obs[pid])]
        /\ CallObservation(pid, form)
        /\ player_id' = IF lastCall'.raised THEN player_id ELSE pid

\* ------------------------------------------ ta_master.py: observe, perceive
\* The wrapper ta_master.py imports (clem_observation_wrapper) is not part of
\* the sources; observation(player_id) is taken to do what the observation
\* aggregator is specified to do: drain what is pending for the player, one
\* bracketed line per fragment of another sender, the standard prompt first
\* on the player's first turn, role "user"
MergedContextFor(pid, obs, got, initial) ==
    ConvertObsToContext(pid, (pid :> Pending(obs, got, pid)), initial).context

\* observe() and the first half of player(context): the proxy checks the
\* role of the context, then perceive_context
TA_Perceive ==
    /\ iteration = "ta_master"
    /\ pc = "observe"
    /\ current_player_id \in players_by_id
    /\ context' = MergedContextFor(current_player_id, observations, fetched,
                                   is_initial_call)
    /\ fetched' = [fetched EXCEPT ![current_player_id] =
                                     Len(observations[current_player_id])]
    /\ IF context'.role = "user"
       THEN /\ played_in_turn' =
                  PerceiveContext(played_in_turn, last_player,
                                  current_player_id).played_in_turn
            /\ last_player' =
                  PerceiveContext(played_in_turn, last_player,
                                  current_player_id).last_player
            /\ acted' = acted \cup {current_player_id}
            /\ pc' = "respond"
       ELSE /\ pc' = "error"
            /\ UNCHANGED <<played_in_turn, last_player, acted>>
    /\ UNCHANGED <<step_calls, otherVars, configVars, metricVars, setupVars, current_player_id, observations,
                   players_by_id, request_violation, started, done,
                   checked_observations, is_initial_call, player_id,
                   temp_observations, recorded, delivered, lastCall, rounds,
                   violations, turns, alternating, inspections>>

\* ------------------------------------------------------- master.py: play
\* the boundary test of play()
AllPlayedAndValid(played, by_id, violation) ==
    Cardinality(played) = Cardinality(by_id) - 1 /\ ~violation

\* play(), before the loop: player_id, context = self.env.get_observation()
M_Start ==
    /\ iteration = "master"
    /\ pc = "start"
    /\ current_player_id' = current_player_id
    /\ is_initial_call' = is_initial_call
    /\ \E form \in ObservationForms(Pending(observations, fetched, current_player_id)) :
        /\ GetObservation(observations, form)
        /\ pc' = IF lastCall'.raised THEN "error" ELSE "turn"
    /\ UNCHANGED <<step_calls, otherVars, configVars, metricVars, setupVars, observations, players_by_id, played_in_turn,
                   last_player, started, done, checked_observations, rounds, turns,
                   acted, alternating, inspections>>

\* top of the loop: bookkeeping, then the player is called with the context;
\* the call returns a response or raises
M_Turn ==
    /\ iteration = "master"
    /\ pc = "turn"
    /\ played_in_turn' =
          PerceiveContext(played_in_turn, last_player, player_id).played_in_turn
    /\ last_player' = PerceiveContext(played_in_turn, last_player, player_id).last_player
    /\ \E responds \in BOOLEAN :
        /\ pc' = IF responds /\ context.role = "user" THEN "step" ELSE "error"
        /\ acted' = IF context.role = "user" THEN acted \cup {player_id} ELSE acted
        /\ is_initial_call' =
              IF responds /\ context.role = "user"
              THEN [is_initial_call EXCEPT ![player_id] = FALSE]
              ELSE is_initial_call
    /\ UNCHANGED <<step_calls, otherVars, configVars, metricVars, setupVars, envVars, players_by_id, request_violation,
                   started, done, checked_observations, player_id, wrapperVars,
                   rounds, violations, turns, alternating, inspections>>

\* self.step(response) raises: play() propagates the failure
M_StepRaises ==
    /\ iteration = "master"
    /\ pc = "step"
    /\ pc' = AfterStepRaises(pc)
    /\ step_calls' = step_calls + 1
    /\ UNCHANGED <<otherVars, configVars, metricVars, setupVars, envVars, players_by_id, request_violation,
                   played_in_turn, last_player, started, done, checked_observations,
                   is_initial_call, player_id, wrapperVars, rounds, violations,
                   turns, acted, alternating, inspections>>

\* rest of the loop body: step, then either the next observation and the
\* boundary test, or _on_after_game
M_Step ==
    /\ iteration = "master"
    /\ pc = "step"
    /\ \E adds \in StepOutcomes(current_player_id), nxt \in Players, d \in BOOLEAN :
        LET actor == current_player_id
            obs == Appended(adds)
        IN  /\ MayContinue(d)
            /\ observations' = obs
            /\ current_player_id' = nxt
            /\ is_initial_call' = is_initial_call
            /\ turns' = turns + 1
            /\ inspections' = [p \in Players |-> inspections[p] \o Zeros(Len(adds[p]))]
            /\ IF d
               THEN \E payload \in Closing(d, last_player) :
                    LET boundary ==
                            /\ RoundTestRuns(d)
                            /\ AllPlayedAndValid(played_in_turn, players_by_id,
                                                 request_violation)
                    IN
                    /\ played_in_turn' = IF boundary THEN {} ELSE played_in_turn
                    /\ rounds' = IF boundary THEN rounds + 1 ELSE rounds
                    /\ acted' = IF boundary THEN {} ELSE acted
                    /\ pc' = IF LoopContinues(d) THEN "turn" ELSE "done"
                    /\ alternating' = (alternating /\ nxt /= actor)
                    /\ closes' = closes + 1
                    /\ after_game' = after_game + 1
                    /\ rewards' = payload
                    /\ logged' = logged \o MasterOnAfterGame(payload, last_player,
                                                            numPlayers)
                    /\ violations' =
                          violations + Cardinality(FlaggedPlayers(payload, last_player))
                    /\ UNCHANGED <<fetched, player_id, wrapperVars, request_violation>>
               ELSE \E form \in ObservationForms(Pending(obs, fetched, nxt)) :
                    LET boundary ==
                            /\ ~lastCall'.raised
                            /\ AllPlayedAndValid(played_in_turn, players_by_id,
                                                 request_violation')
                    IN  /\ GetObservation(obs, form)
                        /\ pc' = IF lastCall'.raised THEN "error" ELSE "turn"
                        /\ alternating' =
                              (alternating /\ nxt /= actor /\ ~request_violation')
                        /\ played_in_turn' = IF boundary THEN {} ELSE played_in_turn
                        /\ rounds' = IF boundary THEN rounds + 1 ELSE rounds
                        /\ acted' = IF boundary THEN {} ELSE acted
                        /\ UNCHANGED <<closes, after_game, rewards, logged>>
    /\ step_calls' = step_calls + 1
    /\ UNCHANGED <<otherVars, configVars, setupVars, players_by_id, last_player, started, done,
                   checked_observations, final_keys, last_move_invalid>>

\* ------------------------------------------- the wrapper, called directly
\* The fragments fed to the wrapper directly: system messages and a message
\* sent by player 0 (the receiver's own message when the receiver is 0)
WrapperFragments == {Frag(GM, t) : t \in Texts} \cup {Frag(0, PlainText)}

\* fragments recorded so far, all players together
Recorded == TotalLen(recorded, numPlayers)

\* The observation arguments of at most `room` fragments
WrapperInputs(room) ==
    {NoneObs}
        \cup (IF room >= 1 THEN {StrObs(t) : t \in Texts} ELSE {})
        \cup {SeqObs(frags) :
                frags \in UNION {[1..n -> WrapperFragments] : n \in 0..room}}

\* A caller outside play() (the harness, or the environment on its behalf)
\* calls observation(player_id, observation)
W_Observation(p, observation) ==
    /\ iteration = "master"
    /\ pc = "start"
    /\ is_initial_call' = is_initial_call
    /\ CallObservation(p, observation)
    /\ UNCHANGED <<step_calls, otherVars, configVars, metricVars, setupVars, envVars, pc, players_by_id, played_in_turn,
                   last_player, started, done, checked_observations, player_id,
                   rounds, turns, acted, alternating, inspections>>

\* ... without a new observation: observation(player_id, None)
M_ObserveNone(p) == W_Observation(p, NoneObs)

\* ... with an observation of its own
W_Record ==
    /\ pc = "start"
    /\ \E p \in Players, observation \in WrapperInputs(MaxRecorded - Recorded) :
        /\ observation.type /= "none"
        /\ W_Observation(p, observation)

\* The player that was handed the last context is called with it for the
\* first time: its next context carries no standard prompt
W_PlayerCalled ==
    /\ iteration = "master"
    /\ pc = "start"
    /\ lastCall.op = "observation" /\ ~lastCall.raised
    /\ \E p \in Players :
        /\ p = lastCall.player
        /\ is_initial_call[p]
        /\ is_initial_call' = [is_initial_call EXCEPT ![p] = FALSE]
    /\ UNCHANGED <<step_calls, otherVars, configVars, metricVars, setupVars, envVars, pc, players_by_id, request_violation,
                   played_in_turn, last_player, started, done, checked_observations,
                   player_id, wrapperVars, rounds, violations, turns, acted,
                   alternating, inspections>>

\* ------------------------------------------- submasters.py: the decoders
\* _init_metrics: the default values of the metrics
InitMetrics ==
    (METRIC_ABORTED :> 0) @@ (METRIC_SUCCESS :> 0) @@ (METRIC_LOSE :> 0)
        @@ (BENCH_SCORE :> NaN)

\* _log_metric_keys(metrics): the log_key calls it makes
LogMetricKeys(metrics) ==
    <<(<<METRIC_ABORTED, metrics[METRIC_ABORTED]>>),
      (<<METRIC_SUCCESS, metrics[METRIC_SUCCESS]>>),
      (<<METRIC_LOSE, metrics[METRIC_LOSE]>>),
      (<<BENCH_SCORE, metrics[BENCH_SCORE]>>)>>

\* reward_for_player(rewards, player_id): rewards[0][player_id]
RewardForPlayer(payload, pid) == payload.success[pid]

\* reward_for_player: its two assertions hold
RewardFound(payload, pid) ==
    pid \in DOMAIN payload.success /\ pid \in DOMAIN payload.invalid_move

\* log_success of class cls raises on this payload: SinglePlayerMaster goes
\* through reward_for_player(rewards, player_id=0); WordChainsMaster and
\* TwoPlayerMaster never look a player up in the payload
LogSuccessRaises(cls, payload) == cls = SinglePlayer /\ ~RewardFound(payload, 0)

\* prepare_metrics counting every positive reward a success
PrepareMetrics_PositiveIsSuccess(numeric_reward) ==
    IF numeric_reward = -One
    THEN [InitMetrics EXCEPT ![METRIC_ABORTED] = One, ![METRIC_LOSE] = One]
    ELSE IF numeric_reward > 0 THEN [InitMetrics EXCEPT ![METRIC_SUCCESS] = One]
    ELSE InitMetrics

\* SinglePlayerMaster.prepare_metrics(numeric_reward); the defaults it starts
\* from are those of _init_metrics
PrepareMetrics(numeric_reward) ==
    LET metrics == InitMetrics
    IN  IF numeric_reward /= 0
        THEN IF numeric_reward = -One
             THEN [metrics EXCEPT ![METRIC_ABORTED] = One, ![METRIC_LOSE] = One]
             ELSE IF numeric_reward = One
             THEN [metrics EXCEPT ![METRIC_SUCCESS] = One]
             ELSE metrics
        ELSE metrics

\* the three log_key calls of WordChainsMaster and TwoPlayerMaster
LogFlags(aborted, success, lose) ==
    <<(<<METRIC_ABORTED, aborted>>), (<<METRIC_SUCCESS, success>>),
      (<<METRIC_LOSE, lose>>)>>

\* WordChainsMaster.log_success counting only a longer word a success
WordChainsFlags_GrowthOnly(word_length_diff) ==
    IF word_length_diff <= 0 THEN LogFlags(One, 0, One) ELSE LogFlags(0, One, 0)

\* WordChainsMaster.log_success: the branch on word_length_diff
WordChainsFlags(word_length_diff) ==
    IF word_length_diff = 0 THEN LogFlags(One, 0, One) ELSE LogFlags(0, One, 0)

\* TwoPlayerMaster.log_success: the branch on last_move_invalid
TwoPlayerFlags(invalid) ==
    IF invalid THEN LogFlags(One, 0, One) ELSE LogFlags(0, One, 0)

\* self.final_keys after log_success; end_length is the length of the
\* environment's current word
FinalKeys(cls, keys, payload, end_length) ==
    IF cls = WordChains
    THEN ("end_word_length" :> end_length)
            @@ ("word_length_diff" :> end_length - keys["start_word_length"]) @@ keys
    ELSE IF cls = SinglePlayer
    THEN ("numeric_reward" :> RewardForPlayer(payload, 0)) @@ keys
    ELSE ("rewards" :> payload) @@ keys

\* log_success(rewards, last_move_invalid) of class cls: the log_key calls
LogSuccess(cls, payload, invalid, keys) ==
    IF cls = WordChains THEN WordChainsFlags(keys["word_length_diff"])
    ELSE IF cls = SinglePlayer
    THEN LogMetricKeys(PrepareMetrics(keys["numeric_reward"]))
    ELSE TwoPlayerFlags(invalid)

\* The rewards of a single-player environment: -1, 1 and completions between
SingleRewards == {r \in (-One)..One : r % 20 = 0}

\* The payloads env.close() hands to the decoder of class cls: an entry for
\* every player, or for every player but the last (word-chain episodes are
\* decoded from the word lengths; their payload is taken without entries)
DecoderPayloads(cls) ==
    IF cls = WordChains THEN {NoRewards}
    ELSE UNION {{[success |-> s, invalid_move |-> [p \in ids |-> FALSE]] :
                    s \in [ids -> IF cls = SinglePlayer THEN SingleRewards ELSE {0, One}]} :
                ids \in {Players, Players \ {numPlayers - 1}}}

\* log_success is called on an episode that was set up.  (Nothing in
\* ta_master.py calls it: the decoders are applied to every payload.)
D_LogSuccess ==
    /\ iteration = "ta_master"
    /\ pc = "observe"
    /\ family /= Base
    /\ \E payload \in DecoderPayloads(family), invalid \in BOOLEAN,
          end_length \in WordLengths :
        /\ rewards' = payload
        /\ last_move_invalid' = invalid
        /\ IF LogSuccessRaises(family, payload)
           THEN /\ pc' = "error"
                /\ UNCHANGED <<final_keys, logged>>
           ELSE /\ pc' = "decoded"
                /\ final_keys' = FinalKeys(family, final_keys, payload, end_length)
                /\ logged' = logged \o LogSuccess(family, payload, invalid, final_keys')
    /\ UNCHANGED <<step_calls, otherVars, configVars, setupVars, envVars, players_by_id, request_violation,
                   played_in_turn, last_player, started, done, checked_observations,
                   is_initial_call, player_id, wrapperVars, rounds, violations,
                   turns, acted, alternating, inspections, closes, after_game>>

\* ------------------------------------------- seeding and fallback replies
\* The process-wide generator of `random` (and np.random): a linear
\* congruential generator over 0..(RngMod - 1)
\* random.seed(seed) that leaves the generator as it was
Seeded_Skipped(state, s) == state

\* random.seed(kwargs['seed']); np.random.seed(kwargs['seed'])
Seeded(state, s) == (7 * s + 3) % RngMod

\* the generator after one draw
Drawn(state) == (5 * state + 1) % RngMod

\* random.choice(seq)
Choice(seq, state) == seq[(state % Len(seq)) + 1]

DefaultResponse == "Whatever"

\* TextArenaPlayer.__init__: custom_response if custom_response else ["Whatever"]
Candidates(custom) == IF custom /= <<>> THEN custom ELSE <<DefaultResponse>>

\* TextArenaPlayer._custom_response
CustomResponse(custom, state) == Choice(Candidates(custom), state)

CustomResponses == {<<>>, <<"yes">>, <<"yes", "no">>, <<"no", "yes", "yes">>}

\* setup() up to and including env.reset(): ta.make() draws from the
\* generator, as does env.reset(); master.py seeds before ta.make(),
\* ta_master.py after it
GeneratorAfterSetup(which, state, s) ==
    IF which = "master"
    THEN Drawn(Drawn(Seeded(state, s)))
    ELSE Drawn(Seeded(Drawn(state), s))

\* A deterministic environment: what env.step(action) answers is a function
\* of the generator's state and of the action
EnvStep(state, action, actor, n) ==
    [next |-> IF action = "no" THEN actor ELSE (state \div 2) % n,
     flagged |-> action = "no",
     done |-> state % 8 = 0,
     state |-> Drawn(state)]

\* A deterministic environment: what env.close() returns
EnvClose(state, flagged, actor) ==
    [success |-> [p \in Players |-> IF state % 2 = 0 THEN One ELSE 0],
     invalid_move |-> [p \in Players |-> flagged /\ p = actor]]

\* setup() of either iteration, with programmatic players
R_Setup ==
    /\ pc = "init"
    /\ rng' = GeneratorAfterSetup(iteration, rng, seed)
    /\ started' = TRUE
    /\ players_by_id' = {GM} \cup Players
    /\ current_player_id' = 0
    /\ pc' = "respond"
    /\ UNCHANGED <<scorerVars, referenceVars, configVars, setupVars, metricVars, wrapperVars, custom_response,
                   episode, trace, earlier, observations, fetched, request_violation,
                   played_in_turn, last_player, done, checked_observations,
                   is_initial_call, player_id, rounds, violations, turns, step_calls,
                   acted, alternating, inspections>>

\* one pass of the loop of play(): the current player answers with its
\* _custom_response and the step runs to its end
R_Turn ==
    /\ pc = "respond"
    /\ LET actor == current_player_id
           response == CustomResponse(custom_response, rng)
           answer == EnvStep(Drawn(rng), response, actor, numPlayers)
           d == answer.done \/ turns + 1 = MaxTurns
           played == played_in_turn \cup {actor}
           boundary == RoundTestRuns(d)
                           /\ StartNextRound(played, players_by_id, answer.flagged)
           payload == EnvClose(answer.state, answer.flagged, actor)
       IN  /\ rng' = answer.state
           /\ current_player_id' = answer.next
           /\ last_player' = actor
           /\ request_violation' =
                  RequestViolationAfter(request_violation, answer.flagged)
           /\ violations' = violations + (IF answer.flagged THEN 1 ELSE 0)
           /\ played_in_turn' = IF boundary THEN PrepareNextRound(played) ELSE played
           /\ rounds' = IF boundary THEN rounds + 1 ELSE rounds
           /\ turns' = turns + 1
           /\ step_calls' = step_calls + 1
           /\ done' = d
           /\ trace' = Append(trace, [player |-> actor, reply |-> response,
                                      boundary |-> boundary])
           /\ IF OnAfterGameRuns(d)
              THEN /\ closes' = closes + 1
                   /\ after_game' = after_game + 1
                   /\ rewards' = payload
                   /\ logged' = logged \o
                          (IF iteration = "master"
                           THEN MasterOnAfterGame(payload, actor, numPlayers)
                           ELSE TaOnAfterGame(family, payload))
              ELSE UNCHANGED <<closes, after_game, rewards, logged>>
           /\ pc' = IF LoopContinues(d) THEN "respond" ELSE "done"
    /\ UNCHANGED <<scorerVars, referenceVars, configVars, setupVars, wrapperVars, custom_response, episode, earlier,
                   observations, fetched, players_by_id, started, checked_observations,
                   is_initial_call, player_id, acted, alternating, inspections,
                   final_keys, last_move_invalid>>

\* The process goes on to a second episode of the same instance: a new game
\* master, the same configuration and seed, the generator wherever the
\* process has left it in the meantime
R_Again ==
    /\ pc = "done"
    /\ episode = 1
    /\ episode' = 2
    /\ earlier' = [trace |-> trace, logged |-> logged]
    /\ trace' = <<>>
    /\ rng' \in 0..(RngMod - 1)
    /\ pc' = "init"
    /\ current_player_id' = 0
    /\ players_by_id' = {GM}
    /\ request_violation' = FALSE
    /\ played_in_turn' = {}
    /\ last_player' = None
    /\ started' = FALSE
    /\ done' = FALSE
    /\ rounds' = 0
    /\ violations' = 0
    /\ turns' = 0
    /\ step_calls' = 0
    /\ closes' = 0
    /\ after_game' = 0
    /\ rewards' = NoRewards
    /\ logged' = <<>>
    /\ UNCHANGED <<scorerVars, referenceVars, configVars, setupVars, wrapperVars, custom_response, observations,
                   fetched, checked_observations, is_initial_call, player_id, acted,
                   alternating, inspections, final_keys, last_move_invalid>>

\* ------------------------------------------------------ episode scorers
\* the state of a TextArena episode, which a scorer never sees
playVars == <<current_player_id, observations, fetched, players_by_id,
              request_violation, played_in_turn, last_player, started, done,
              checked_observations, is_initial_call, player_id, rounds, violations,
              turns, step_calls, acted, alternating, inspections>>



\* dict.get(key, default)
Get(dict, key, default) == IF key \in DOMAIN dict THEN dict[key] ELSE default

\* TextArenaScorer.compute_episode_scores reporting the logged bench score
\* whatever the aborted metric is
ComputeEpisodeScores_BenchAlways(interactions) ==
    <<(<<BENCH_SCORE, Get(interactions, BENCH_SCORE, 0)>>),
      (<<METRIC_SUCCESS, Get(interactions, METRIC_SUCCESS, 0)>>),
      (<<METRIC_ABORTED, Get(interactions, METRIC_ABORTED, 0)>>),
      (<<METRIC_LOSE, Get(interactions, METRIC_LOSE, 0)>>)>>

\* TextArenaScorer.compute_episode_scores: the log_episode_score calls
ComputeEpisodeScores(interactions) ==
    LET bench_score == Get(interactions, BENCH_SCORE, 0)
        success == Get(interactions, METRIC_SUCCESS, 0)
        aborted == Get(interactions, METRIC_ABORTED, 0)
        lose == Get(interactions, METRIC_LOSE, 0)
    IN  <<(<<BENCH_SCORE, IF aborted /= 0 THEN NaN ELSE bench_score>>),
          (<<METRIC_SUCCESS, success>>),
          (<<METRIC_ABORTED, aborted>>),
          (<<METRIC_LOSE, lose>>)>>

\* MultimodalReferenceGameScorer.compute_scores: the log_episode_score calls
\* it makes until it returns or a missing key raises KeyError (the scores of
\* the expression's length and token count are left out)
ComputeScores(interactions) ==
    IF METRIC_ABORTED \notin DOMAIN interactions
    THEN [raised |-> TRUE, scores |-> <<>>]
    ELSE
    LET aborted == interactions[METRIC_ABORTED]
        head == <<(<<METRIC_ABORTED, aborted>>)>>
    IN  IF aborted = One /\ "Aborted at Player" \notin DOMAIN interactions
        THEN [raised |-> TRUE, scores |-> head]
        ELSE
        LET aborted_at_player_1 ==
                IF aborted = One /\ interactions["Aborted at Player"] = 1 THEN 1 ELSE 0
            aborted_at_player_2 ==
                IF aborted = One /\ interactions["Aborted at Player"] = 2 THEN 1 ELSE 0
            request_count == IF aborted_at_player_1 = 0 THEN 2 ELSE 1
            parsed_request_count ==
                IF aborted_at_player_1 /= 0 THEN 0
                ELSE IF aborted_at_player_2 = 0 THEN 2 ELSE 1
            counts ==
                <<(<<"Aborted at Player 1", aborted_at_player_1>>),
                  (<<"Aborted at Player 2", aborted_at_player_2>>),
                  (<<"Request Count", request_count>>),
                  (<<"Parsed Request Count", parsed_request_count>>),
                  (<<"Violated Request Count", request_count - parsed_request_count>>)>>
        IN  IF METRIC_SUCCESS \notin DOMAIN interactions
            THEN [raised |-> TRUE, scores |-> head \o counts]
            ELSE [raised |-> FALSE,
                  scores |-> head \o counts \o
                      <<(<<METRIC_LOSE, One - interactions[METRIC_SUCCESS]>>),
                        (<<BENCH_SCORE,
                           IF aborted = 0 THEN interactions[METRIC_SUCCESS] * 100
                           ELSE NaN>>)>>]

\* the values an episode record may hold under a key (the player an episode
\* was aborted at, '1' or '2', as a number)
RecordValues(key) ==
    IF key = METRIC_SUCCESS THEN {0, 50, One}
    ELSE IF key = BENCH_SCORE THEN {0, 50, One, NaN}
    ELSE IF key = "Aborted at Player" THEN {1, 2}
    ELSE {0, One}


\* the episode records: any of the keys may be absent
EpisodeRecords ==
    UNION {{f \in [keys -> UNION {RecordValues(k) : k \in keys}] :
               \A k \in keys : f[k] \in RecordValues(k)} :
           keys \in SUBSET {METRIC_ABORTED, METRIC_SUCCESS, METRIC_LOSE, BENCH_SCORE,
                            "Aborted at Player"}}

\* the scorer of the TextArena games scores the episode
S_TextArena ==
    /\ pc = "init"
    /\ scorer = "TextArenaScorer"
    /\ scores' = ComputeEpisodeScores(episode_interactions)
    /\ pc' = "scored"
    /\ UNCHANGED <<playVars, wrapperVars, configVars, metricVars, setupVars, replayVars,
                   referenceVars, scorer, episode_interactions>>

\* the scorer of the reference game scores the episode
S_Reference ==
    /\ pc = "init"
    /\ scorer = "MultimodalReferenceGameScorer"
    /\ scores' = ComputeScores(episode_interactions).scores
    /\ pc' = IF ComputeScores(episode_interactions).raised THEN "error" ELSE "scored"
    /\ UNCHANGED <<playVars, wrapperVars, configVars, metricVars, setupVars, replayVars,
                   referenceVars, scorer, episode_interactions>>

\* ------------------------------------ one environment, both iterations
\* An environment trace: what env.step answers, step by step, the last step
\* ending the game, and what env.close() then returns
StepAnswers(ends) ==
    [adds : Distributions(0, numPlayers, MaxObs), next : Players, done : {ends}]

Scripts ==
    [steps : UNION {{Append(before, last) :
                        before \in [1..n -> StepAnswers(FALSE)],
                        last \in StepAnswers(TRUE)} : n \in 0..(MaxScript - 1)},
     reward : {0, One},
     invalid_move : BOOLEAN]

\* the step being answered is the next one of the script
FollowsScript ==
    /\ turns + 1 <= Len(script.steps)
    /\ LET answer == script.steps[turns + 1]
       IN  /\ observations' = Appended(answer.adds)
           /\ current_player_id' = answer.next
           /\ (pc' = "done") = answer.done
           /\ answer.done =>
                 rewards' = [success |-> [p \in Players |-> script.reward],
                             invalid_move |->
                                 [p \in Players |->
                                     script.invalid_move /\ p = last_player']]

B_TaStep == TA_Step /\ FollowsScript

B_MasterStep == M_Step /\ FollowsScript

\* The episode of ta_master.py has ended: the same instance is played by
\* master.py against the same environment
B_Switch ==
    /\ iteration = "ta_master"
    /\ pc = "done"
    /\ episode = 1
    /\ iteration' = "master"
    /\ episode' = 2
    /\ earlier' = [rounds |-> rounds, violations |-> violations]
    /\ pc' = "init"
    /\ current_player_id' = 0
    /\ observations' = <<>>
    /\ fetched' = <<>>
    /\ players_by_id' = {GM}
    /\ request_violation' = FALSE
    /\ played_in_turn' = {}
    /\ last_player' = None
    /\ started' = FALSE
    /\ done' = FALSE
    /\ checked_observations' = <<>>
    /\ temp_observations' = <<>>
    /\ is_initial_call' = <<>>
    /\ player_id' = None
    /\ context' = NoContext
    /\ rounds' = 0
    /\ violations' = 0
    /\ turns' = 0
    /\ step_calls' = 0
    /\ acted' = {}
    /\ alternating' = TRUE
    /\ inspections' = <<>>
    /\ recorded' = <<>>
    /\ delivered' = <<>>
    /\ lastCall' = NoCall
    /\ reset_word_list' = <<>>
    /\ setup_calls' = <<>>
    /\ closes' = 0
    /\ after_game' = 0
    /\ rewards' = NoRewards
    /\ logged' = <<>>
    /\ final_keys' = <<>>
    /\ last_move_invalid' = FALSE
    /\ UNCHANGED <<numPlayers, numSpecs, seed, override_variables, made_word_list, family,
                   script, word_list, rng, custom_response, trace, scorerVars,
                   referenceVars>>

\* ------------------------------- multimodal_referencegame/master.py
\* Player 1 is the instruction giver, player 2 the instruction follower
Giver == 1
Follower == 2

\* A response as the patterns of the game instance see it: whether the
\* pattern matches at the start, what its groups 'content' and 'remainder'
\* hold
Responses(contents) ==
    [matches : {TRUE}, content : contents, remainder : {"", "more text"}]
        \cup [matches : {FALSE}, content : {""}, remainder : {""}]


\* str.lower() on the answers of the model
Lower(text) ==
    IF text = "First" THEN "first" ELSE IF text = "THIRD" THEN "third" ELSE text

\* game_instance['accepted_answers'], one list per target image
accepted_answers == <<{"first", "1"}, {"second", "2"}, {"third", "3"}>>

\* p_match and p_match.group('remainder') == ""
PatternHolds(response) == response.matches /\ response.remainder = ""

\* _validate_player_response in which only an invalid response of player 2
\* ends the game
ValidatePlayerResponse_FollowerGoesOn(player, response, state) ==
    IF PatternHolds(response)
    THEN [state EXCEPT !.valid = TRUE]
    ELSE [valid |-> FALSE, terminate |-> TRUE, aborted |-> TRUE,
          aborted_at_player |-> player]

\* _validate_player_response: the verdict, and self.terminate, self.aborted
\* and self.aborted_at_player after it
ValidatePlayerResponse(player, response, state) ==
    IF player = Giver
    THEN IF PatternHolds(response)
         THEN [state EXCEPT !.valid = TRUE]
         ELSE [valid |-> FALSE, terminate |-> TRUE, aborted |-> TRUE,
               aborted_at_player |-> Giver]
    ELSE IF PatternHolds(response)
         THEN [state EXCEPT !.valid = TRUE, !.terminate = TRUE]
         ELSE [valid |-> FALSE, terminate |-> TRUE, aborted |-> TRUE,
               aborted_at_player |-> Follower]

\* _parse_response of a valid response
ParseResponse(player, response) ==
    IF player = Giver THEN response.content ELSE Lower(response.content)

\* _on_valid_player_response of player 2: is the guess an accepted answer
GuessCorrect(parsed_response, number) == parsed_response \in accepted_answers[number]

\* _does_game_proceed
DoesGameProceed(terminated) == ~terminated

\* _on_after_game: the log_key calls
ReferenceOnAfterGame(aborted, success, at) ==
    <<(<<METRIC_ABORTED, IF aborted THEN One ELSE 0>>),
      (<<METRIC_SUCCESS, IF success THEN One ELSE 0>>)>>
        \o (IF aborted THEN <<(<<"Aborted at Player", at>>)>> ELSE <<>>)

\* _on_setup
G_Setup ==
    /\ pc = "init"
    /\ terminate' = FALSE
    /\ ref_aborted' = FALSE
    /\ ref_success' = FALSE
    /\ aborted_at_player' = None
    /\ pc' = "play"
    /\ UNCHANGED <<playVars, wrapperVars, configVars, metricVars, setupVars, replayVars,
                   scorerVars, target_image_number, replies, follower_context,
                   prompted>>

\* One pass of the loop of DialogueGameMaster.play: while the game proceeds
\* the player whose turn it is is called and its response is validated,
\* parsed and acted upon; the turn passes to the other player
G_Turn ==
    /\ pc = "play"
    /\ DoesGameProceed(terminate)
    /\ Len(prompted) < MaxPrompts
    /\ LET player == IF Len(prompted) % 2 = 0 THEN Giver ELSE Follower
           response == replies[player]
           verdict == ValidatePlayerResponse(player, response,
                          [valid |-> FALSE, terminate |-> terminate,
                           aborted |-> ref_aborted,
                           aborted_at_player |-> aborted_at_player])
           parsed_response == ParseResponse(player, response)
           guessed == verdict.valid /\ player = Follower
                          /\ GuessCorrect(parsed_response, target_image_number)
       IN  /\ prompted' = Append(prompted, player)
           /\ terminate' = verdict.terminate
           /\ ref_aborted' = verdict.aborted
           /\ aborted_at_player' = verdict.aborted_at_player
           /\ follower_context' =
                  IF verdict.valid /\ player = Giver
                  THEN <<"player_2_prompt_header", parsed_response>>
                  ELSE follower_context
           /\ ref_success' = (ref_success \/ guessed)
           /\ IF DoesGameProceed(verdict.terminate)
              THEN /\ pc' = "play"
                   /\ logged' = logged
              ELSE /\ pc' = "done"
                   /\ logged' = logged \o
                          ReferenceOnAfterGame(verdict.aborted, ref_success \/ guessed,
                                               verdict.aborted_at_player)
    /\ UNCHANGED <<playVars, wrapperVars, configVars, setupVars, replayVars, scorerVars,
                   target_image_number, replies, closes, after_game, rewards,
                   final_keys, last_move_invalid>>

\* --------------------------------------------------------- specification
Next ==
    \/ M_Setup
    \/ TA_Setup
    \/ TA_Perceive
    \/ TA_RespondFails
    \/ TA_StepRaises
    \/ TA_Step
    \/ M_Start
    \/ M_Turn
    \/ M_StepRaises
    \/ M_Step
    \/ \E p \in Players : M_ObserveNone(p)

Spec == Init /\ [][Next]_vars

\* The observation wrapper of master.py on its own: set up, then called with
\* any observations in any order
NextWrapper ==
    \/ M_Setup
    \/ \E p \in Players : M_ObserveNone(p)
    \/ W_Record
    \/ W_PlayerCalled

SpecWrapper == Init /\ [][NextWrapper]_vars

\* setup() on its own, for the configurations with overrides
MaxSeed == 2

WordLists == {<<1, 2, 3>>, <<3, 1, 2>>, <<2, 3, 1>>}

Overrides == [path : Paths, expression : Expressions]

\* override_variables is a dict: every path at most once, in insertion order
OverrideConfigs ==
    {<<>>} \cup {<<o>> : o \in Overrides}
        \cup {pair \in {<<o1, o2>> : o1 \in Overrides, o2 \in Overrides} :
                pair[1].path /= pair[2].path}

InitSetup ==
    /\ Constructed
    /\ ReplayIdle
    /\ ScorerIdle
    /\ ReferenceIdle
    /\ seed \in 0..MaxSeed
    /\ override_variables \in OverrideConfigs
    /\ word_list \in WordLists
    /\ made_word_list = word_list
    /\ family \in (IF iteration = "master" THEN {Base} ELSE {Base, WordChains})

NextSetup ==
    \/ M_Setup
    \/ TA_Setup

SpecSetup == InitSetup /\ [][NextSetup]_vars

\* The decoders of submasters.py on their own: an episode of one of the
\* classes is set up, then its log_success is called
InitDecoder ==
    /\ Constructed
    /\ ReplayIdle
    /\ ScorerIdle
    /\ ReferenceIdle
    /\ numSpecs = numPlayers
    /\ iteration = "ta_master"
    /\ family \in Families \ {Base}
    /\ seed = 0
    /\ override_variables = <<>>
    /\ word_list = <<2, 1>>
    /\ made_word_list = word_list

NextDecoder ==
    \/ TA_Setup
    \/ D_LogSuccess

SpecDecoder == InitDecoder /\ [][NextDecoder]_vars

\* Two episodes of one instance in one process, played by programmatic
\* players against a deterministic environment
InitReplay ==
    /\ Constructed
    /\ ScorerIdle
    /\ ReferenceIdle
    /\ numSpecs = numPlayers
    /\ seed \in 0..MaxSeed
    /\ override_variables = <<>>
    /\ word_list = <<2, 1>>
    /\ made_word_list = word_list
    /\ family = Base
    /\ rng \in 0..(RngMod - 1)
    /\ custom_response \in CustomResponses
    /\ episode = 1
    /\ trace = <<>>
    /\ earlier = [trace |-> <<>>, logged |-> <<>>]
    /\ script = <<>>

NextReplay ==
    \/ R_Setup
    \/ R_Turn
    \/ R_Again

SpecReplay == InitReplay /\ [][NextReplay]_vars

\* The scorers on their own: a scorer is given the record of an episode
InitScorer ==
    /\ Constructed
    /\ numSpecs = numPlayers
    /\ iteration = "master"
    /\ numPlayers = MaxPlayers
    /\ seed = 0
    /\ override_variables = <<>>
    /\ word_list = <<2, 1>>
    /\ made_word_list = word_list
    /\ family = Base
    /\ ReplayIdle
    /\ ReferenceIdle
    /\ scorer \in {"TextArenaScorer", "MultimodalReferenceGameScorer"}
    /\ episode_interactions \in EpisodeRecords
    /\ scores = <<>>

NextScorer ==
    \/ S_TextArena
    \/ S_Reference

SpecScorer == InitScorer /\ [][NextScorer]_vars

\* One environment trace played by ta_master.py and then by master.py
InitBoth ==
    /\ Constructed
    /\ numSpecs = numPlayers
    /\ iteration = "ta_master"
    /\ seed = 0
    /\ override_variables = <<>>
    /\ word_list = <<2, 1>>
    /\ made_word_list = word_list
    /\ family = Base
    /\ rng = 0
    /\ custom_response = <<>>
    /\ episode = 1
    /\ trace = <<>>
    /\ earlier = [trace |-> <<>>, logged |-> <<>>]
    /\ script \in Scripts
    /\ ScorerIdle
    /\ ReferenceIdle

NextBoth ==
    \/ TA_Setup
    \/ TA_Perceive
    \/ B_TaStep
    \/ B_Switch
    \/ M_Setup
    \/ M_Start
    \/ M_Turn
    \/ B_MasterStep

SpecBoth == InitBoth /\ [][NextBoth]_vars

\* An episode of the reference game, for any target and any two responses
InitReference ==
    /\ Constructed
    /\ numSpecs = numPlayers
    /\ iteration = "master"
    /\ numPlayers = MaxPlayers
    /\ seed = 0
    /\ override_variables = <<>>
    /\ word_list = <<2, 1>>
    /\ made_word_list = word_list
    /\ family = Base
    /\ ReplayIdle
    /\ ScorerIdle
    /\ target_image_number \in 1..3
    /\ replies \in
          {<<r1, r2>> :
              r1 \in Responses({"The one with a cross", "Top left"}),
              r2 \in Responses({"first", "First", "second", "THIRD", "fourth"})}
    /\ terminate = FALSE
    /\ ref_aborted = FALSE
    /\ ref_success = FALSE
    /\ aborted_at_player = None
    /\ follower_context = <<>>
    /\ prompted = <<>>

NextReference ==
    \/ G_Setup
    \/ G_Turn

SpecReference == InitReference /\ [][NextReference]_vars

TypeOK ==
    /\ pc \in {"init", "start", "turn", "step", "observe", "respond", "done", "error",
              "decoded", "scored", "play"}
    /\ request_violation \in BOOLEAN
    /\ played_in_turn \subseteq Players
    /\ rounds \in 0..MaxTurns
    /\ violations \in 0..(MaxTurns + 1)
    /\ turns \in 0..MaxTurns


\* ------------------------------------------------------------------ claims
InPlay == pc \in {"start", "turn", "step", "observe", "respond"}

\* C1: a round boundary (log_next_round) is declared after a step only if
\* every non-GM player has perceived a context since the previous boundary,
\* and never while request_violation is true.
C1_BoundaryOnlyWhenAllActedAndValid ==
    [][rounds' /= rounds => (acted = Players /\ ~request_violation')]_vars

\* a boundary has been declared in a two-player episode that also saw a
\* request violation
C1_Witness == numPlayers = 2 /\ rounds >= 1 /\ violations >= 1

\* C2: in a two-player episode whose environment has alternated the acting
\* player on every step, none of them flagged, a boundary has been declared
\* after every second non-terminal step and after no other step.
C2_BoundaryEverySecondTurn ==
    (numPlayers = 2 /\ alternating /\ pc /= "error")
        => rounds = (IF pc = "done" THEN (turns - 1) \div 2 ELSE turns \div 2)

\* three alternating, unflagged steps: one boundary, after the second
C2_Witness ==
    numPlayers = 2 /\ alternating /\ InPlay /\ turns = 3 /\ rounds = 1

\* C3: declaring a boundary clears the acted-set and emits exactly one
\* round-advance notification; the acted-set is cleared (or shrunk) at no
\* other point.
C3_BoundaryClearsActedSet ==
    [][/\ rounds' /= rounds => (rounds' = rounds + 1 /\ played_in_turn' = {})
       /\ ~(played_in_turn \subseteq played_in_turn') => rounds' = rounds + 1]_vars

\* right after a boundary: the set is empty and the next turn has not begun
C3_Witness ==
    rounds >= 1 /\ played_in_turn = {} /\ pc \in {"observe", "turn"}

\* C4: after a step of ta_master.py, request_violation is set only by
\* fragments appended, since the last check, to the buffer of the player
\* whose response was forwarded (last_player), never by another player's.
C4_ViolationOnlyFromActingPlayersBuffer ==
    [][(iteration = "ta_master" /\ turns' = turns + 1 /\ request_violation')
        => \E i \in (checked_observations[last_player] + 1)
                        ..Len(observations'[last_player]) :
              HasMarker(observations'[last_player][i])]_vars

\* C5: no fragment is read by more than one validity check: the high-water
\* marks never move backwards, and the counter and the flag are raised only
\* by a marker fragment above the checked player's previous mark.
C5_FragmentsInspectedAtMostOnce ==
    [][(iteration = "ta_master" /\ pc /= "init") =>
        /\ \A p \in Players :
            /\ checked_observations'[p] >= checked_observations[p]
            /\ \A i \in 1..Len(inspections'[p]) : inspections'[p][i] <= 1
        /\ (violations' /= violations \/ (turns' /= turns /\ request_violation'))
            => \E i \in (checked_observations[current_player_id'] + 1)
                            ..Len(observations'[current_player_id']) :
                  HasMarker(observations'[current_player_id'][i])]_vars

\* a marker fragment of the current player was accounted once, and a later
\* check of the same player did not raise the flag again
C5_Witness ==
    /\ iteration = "ta_master" /\ pc = "observe"
    /\ violations = 1 /\ ~request_violation
    /\ \E i \in 1..Len(observations[current_player_id]) :
        /\ HasMarker(observations[current_player_id][i])
        /\ inspections[current_player_id][i] = 1

\* the fragments the last call of observation() appended to its buffer
NewlyRecorded ==
    SubSeq(recorded'[lastCall'.player], Len(recorded[lastCall'.player]) + 1,
           Len(recorded'[lastCall'.player]))

\* the fragments a step of ta_master.py gave to the player it then checked
Unseen == LastObservations(observations', checked_observations, current_player_id')

\* C6: whenever a newly appended fragment, whichever its place in the batch
\* and whether it came as a text or in a sequence, contains the marker,
\* request_violation is raised and the counter goes up by exactly one.
C6_AnyMarkerFragmentRaisesViolation ==
    [][/\ (iteration = "master" /\ pc /= "init" /\ recorded' /= recorded) =>
            ((\E i \in 1..Len(NewlyRecorded) : HasMarker(NewlyRecorded[i]))
                => (request_violation' /\ violations' = violations + 1))
       /\ (iteration = "ta_master" /\ turns' = turns + 1) =>
            ((\E i \in 1..Len(Unseen) : HasMarker(Unseen[i]))
                => (request_violation' /\ violations' = violations + 1))]_vars

Occurrences(seq, x) == Cardinality({i \in 1..Len(seq) : seq[i] = x})

\* the line a fragment becomes in a context
LineOf(fragment) == <<SenderName(fragment[1]), fragment[2]>>

\* C7: after a merge the player's buffer is empty until something is recorded
\* for it, and no recorded fragment comes back in a second context: a line
\* is handed out at most as often as a fragment with that sender and text
\* was recorded.
C7_DrainedFragmentsNeverReturn ==
    pc /= "init" =>
        \A p \in Players :
            /\ p \in DOMAIN temp_observations => temp_observations[p] = <<>>
            /\ \A k \in 1..Len(delivered[p]) :
                 Occurrences(delivered[p], delivered[p][k])
                    <= Cardinality({j \in 1..Len(recorded[p]) :
                                      LineOf(recorded[p][j]) = delivered[p][k]})

\* a player that was handed a fragment asked again, without a new observation
C7_Witness ==
    /\ lastCall.form = "none" /\ lastCall.repeat
    /\ Len(delivered[lastCall.player]) >= 1
    /\ temp_observations[lastCall.player] = <<>>

\* C8 as stated: the second of two successive merges for one player, nothing
\* recorded in between, returns an empty text.
C8_SecondMergeIsEmptyText ==
    (lastCall.form = "none" /\ lastCall.repeat)
        => (context.content.lines = <<>> /\ ~context.content.preamble)

\* C8 amended: the second merge returns no fragment; its text is empty once
\* the player has been called, and only the standard prompt before.
C8_SecondMergeHasNoFragments ==
    (lastCall.form = "none" /\ lastCall.repeat)
        => (context.content.lines = <<>>
            /\ context.content.preamble = lastCall.initial)

\* the second merge of a player that has been called and was handed
\* fragments by the first: empty text
C8_Witness ==
    /\ lastCall.form = "none" /\ lastCall.repeat /\ ~lastCall.initial
    /\ Len(delivered[lastCall.player]) >= 1
    /\ context.content = [preamble |-> FALSE, lines |-> <<>>]

\* the fragments recorded for p that p did not send itself
RECURSIVE FromOthers(_, _)
FromOthers(frags, p) ==
    IF frags = <<>> THEN <<>>
    ELSE IF frags[Len(frags)][1] = p THEN FromOthers(SubSeq(frags, 1, Len(frags) - 1), p)
    ELSE Append(FromOthers(SubSeq(frags, 1, Len(frags) - 1), p), frags[Len(frags)])

\* C9: a player is handed the fragments others sent it in the order they
\* were recorded, each once per recording: no reordering, no deduplication.
C9_FragmentsSurfaceInRecordedOrder ==
    pc /= "init" =>
        \A p \in Players :
            /\ Len(delivered[p]) = Len(FromOthers(recorded[p], p))
            /\ \A k \in 1..Len(delivered[p]) :
                 delivered[p][k] = LineOf(FromOthers(recorded[p], p)[k])

\* a player has been handed two different fragments, the first recorded first
C9_Witness ==
    /\ pc /= "init"
    /\ \E p \in Players :
        /\ Len(delivered[p]) = 2
        /\ delivered[p][1] = LineOf(recorded[p][1])
        /\ delivered[p][1] /= delivered[p][2]

PositionsOf(calls, name) == {i \in 1..Len(calls) : calls[i][1] = name}

\* every call named a comes before every call named b
AllBefore(calls, a, b) ==
    \A i \in PositionsOf(calls, a), j \in PositionsOf(calls, b) : i < j

\* the calls that apply overrides: one per configured override in master.py,
\* the _override_variables hook in ta_master.py
OverridesApplied ==
    IF iteration = "master"
    THEN \A k \in 1..Len(override_variables) :
            \E i \in 1..Len(setup_calls) : setup_calls[i] = <<"override", k>>
    ELSE \E i \in 1..Len(setup_calls) : setup_calls[i] = <<"override_hook", 0>>

\* reset happened once, the players were added after it in declaration order
ResetThenPlayers ==
    /\ Cardinality(PositionsOf(setup_calls, "reset")) = 1
    /\ Cardinality(PositionsOf(setup_calls, "seed")) = 1
    /\ AllBefore(setup_calls, "reset", "add_player")
    /\ \A p \in Proxies :
        \E i \in 1..Len(setup_calls) :
            /\ setup_calls[i] = <<"add_player", p>>
            /\ \A j \in 1..(i - 1) :
                 setup_calls[j][1] = "add_player" => setup_calls[j][2] < p

ValidOverrides ==
    {i \in 1..Len(override_variables) :
        /\ override_variables[i].path = WordListPath
        /\ override_variables[i].expression \in {SortExpr, ReverseExpr}}

IsAscending(s) == \A i \in 1..(Len(s) - 1) : s[i] <= s[i + 1]

IsPermutation(s, t) ==
    Len(s) = Len(t) /\ \A x \in 1..3 : Occurrences(s, x) = Occurrences(t, x)

IsReverse(s, t) == Len(s) = Len(t) /\ \A k \in 1..Len(s) : s[k] = t[Len(t) + 1 - k]

\* what the word list must be after override i alone
OverriddenBy(i) ==
    IF override_variables[i].expression = SortExpr
    THEN IsAscending(word_list) /\ IsPermutation(word_list, made_word_list)
    ELSE IsReverse(word_list, made_word_list)

\* C11: an override whose path does not resolve or whose expression is not a
\* lambda is skipped and its failure logged; the word list is what the other
\* overrides make of it (unchanged when every override fails), and setup
\* runs to its end: the environment is reset and the players are added.
C11_FailedOverrideIsSkipped ==
    (iteration = "master" /\ pc /= "init") =>
        /\ \A i \in 1..Len(override_variables) :
              (i \notin ValidOverrides)
                  <=> (\E k \in 1..Len(setup_calls) : setup_calls[k] = <<"log_error", i>>)
        /\ ValidOverrides = {} => word_list = made_word_list
        /\ \A i \in ValidOverrides : OverriddenBy(i)
        /\ pc = "start"
        /\ Cardinality(PositionsOf(setup_calls, "reset")) = 1
        /\ players_by_id = {GM} \cup Proxies

\* the first override failed, the second reversed the word list
C11_Witness ==
    /\ iteration = "master" /\ pc = "start"
    /\ Len(override_variables) = 2
    /\ override_variables[1].path = MissingPath
    /\ override_variables[2] = [path |-> WordListPath, expression |-> ReverseExpr]
    /\ word_list /= made_word_list
    /\ setup_calls[4] = <<"log_error", 1>>

\* the episode is a word-chain episode with the sort configured: as an
\* override of env.word_list in master.py, as the hook of WordChainsMaster
\* in ta_master.py
SortConfigured ==
    \/ /\ iteration = "master"
       /\ \E i \in 1..Len(override_variables) :
            override_variables[i] = [path |-> WordListPath, expression |-> SortExpr]
    \/ /\ iteration = "ta_master"
       /\ family = WordChains

\* C12: with the sort configured, the word list the reset samples from and
\* the word list after setup are the ascending arrangement of the list the
\* environment was made with, whatever the seed.
C12_SortedWordListAfterSetup ==
    (pc /= "init" /\ SortConfigured) =>
        /\ IsAscending(word_list) /\ IsPermutation(word_list, made_word_list)
        /\ reset_word_list = word_list


\* the log_key calls made so far with this key
LoggedUnder(key) == {i \in 1..Len(logged) : logged[i][1] = key}

MetricKeys == {METRIC_ABORTED, METRIC_SUCCESS, METRIC_LOSE, BENCH_SCORE}

\* C13: an episode that has terminated closed the environment exactly once,
\* logged the payload env.close() returned, and logged each of aborted,
\* success, lose and bench score exactly once.
C13_TerminationLogsMetricVectorOnce ==
    pc = "done" =>
        /\ closes = 1
        /\ \E i \in 1..Len(logged) :
              logged[i][1] \in {"rewards", "ta_rewards"} /\ logged[i][2] = rewards
        /\ \A key \in MetricKeys : Cardinality(LoggedUnder(key)) = 1

\* C19: the step the environment answers with done ends play() and runs
\* _on_after_game; _on_after_game runs on that step only, and once.
C19_AfterGameOnceOnTheDoneStep ==
    [][/\ after_game' /= after_game =>
            /\ after_game = 0 /\ after_game' = 1
            /\ turns' = turns + 1
            /\ iteration = "ta_master" => done'
       /\ (iteration = "ta_master" /\ done') => after_game' = 1
       /\ (pc' = "done") <=> (after_game' = 1)
       /\ closes' = after_game']_vars

\* an episode ended by its third step, after one round boundary
C19_Witness ==
    pc = "done" /\ after_game = 1 /\ turns = 3 /\ rounds = 1

\* Uninitialized, Running, Terminated as positions of setup() and play()
Phase == IF pc = "init" THEN 0 ELSE IF pc = "done" THEN 2 ELSE 1

\* ... and as has_started() / is_done() tell them
FlagPhase == IF ~started THEN 0 ELSE IF ~done THEN 1 ELSE 2

\* C20: the game master only moves Uninitialized -> Running -> Terminated;
\* done never reverts, and once _on_after_game has run nothing more
\* happens: no perceive, respond, step or round advance.
C20_PhasesOnlyAdvance ==
    [][/\ Phase' \in {Phase, Phase + 1}
       /\ iteration = "ta_master" => FlagPhase' = Phase'
       /\ done => done'
       /\ after_game = 0]_vars

\* a two-player episode of ta_master.py that went through all three phases
C20_Witness ==
    /\ iteration = "ta_master" /\ numPlayers = 2
    /\ started /\ done /\ pc = "done" /\ after_game = 1
    /\ turns >= 2


\* the value logged under a key that was logged once
LoggedValue(key) == logged[CHOOSE i \in LoggedUnder(key) : TRUE][2]

\* aborted, success and lose were each logged once, with these values
FlagsLogged(aborted, success, lose) ==
    /\ \A key \in {METRIC_ABORTED, METRIC_SUCCESS, METRIC_LOSE} :
          Cardinality(LoggedUnder(key)) = 1
    /\ LoggedValue(METRIC_ABORTED) = aborted
    /\ LoggedValue(METRIC_SUCCESS) = success
    /\ LoggedValue(METRIC_LOSE) = lose

\* the bench score was logged once, with this value
BenchScoreLogged(score) ==
    Cardinality(LoggedUnder(BENCH_SCORE)) = 1 /\ LoggedValue(BENCH_SCORE) = score

\* no bench score, or the undefined one
BenchScoreUndefined ==
    \A i \in LoggedUnder(BENCH_SCORE) : logged[i][2] = NaN

Decoded(cls) == pc = "decoded" /\ family = cls

C15_SinglePlayerBenchScore ==
    Decoded(SinglePlayer) =>
        IF rewards.success[0] = -One THEN BenchScoreUndefined
        ELSE BenchScoreLogged(rewards.success[0] * 100)

\* C16: the two-player decoder logs aborted=1, lose=1, success=0 when the
\* last move was flagged invalid; otherwise aborted=0, success=1, lose=0 and
\* as bench score the mean of the players' success indicators.
C16_TwoPlayerVector ==
    Decoded(TwoPlayer) =>
        IF last_move_invalid THEN FlagsLogged(One, 0, One)
        ELSE /\ FlagsLogged(0, One, 0)
             /\ BenchScoreLogged(Mean(rewards.success, numPlayers))

\* C17: the length-delta decoder, with the start length taken at setup and
\* the end length at termination, logs aborted=1, success=0, lose=1 when
\* they are equal and success=1, aborted=0, lose=0 when they differ, in
\* either direction.
C17_LengthDeltaFlags ==
    Decoded(WordChains) =>
        IF final_keys["end_word_length"] = final_keys["start_word_length"]
        THEN FlagsLogged(One, 0, One)
        ELSE FlagsLogged(0, One, 0)

\* the word got shorter: still a success
C17_Witness ==
    /\ Decoded(WordChains)
    /\ final_keys["start_word_length"] = 12 /\ final_keys["end_word_length"] = 4
    /\ LoggedValue(METRIC_SUCCESS) = One

\* C18: the length-delta decoder logs the bench score
\* min(1, end length / 20) x 100 when the lengths differ (start 4, end 12
\* gives 60) and the undefined score when they are equal.
C18_LengthDeltaBenchScore ==
    Decoded(WordChains) =>
        IF final_keys["end_word_length"] = final_keys["start_word_length"]
        THEN BenchScoreUndefined
        ELSE BenchScoreLogged(
                IF final_keys["end_word_length"] >= 20 THEN 100 * One
                ELSE (final_keys["end_word_length"] * 100 * One) \div 20)

\* the player whose turn it is: the one play() hands the context to
Actor == IF iteration = "ta_master" THEN current_player_id ELSE player_id

\* a turn begins: the context goes to the player
TurnBegins == (pc = "observe" /\ pc' = "respond") \/ (pc = "turn" /\ pc' /= "turn")

\* the player that was given the context raised instead of responding
ResponseFails ==
    (pc = "respond" /\ pc' = "error" /\ is_initial_call' = is_initial_call)
        \/ (pc = "turn" /\ pc' = "error")

\* C21: the acting player enters the acted-set and becomes the last actor
\* when it is given its context, before its response, and at no other
\* moment; a player that was given a context and failed to respond is in
\* the acted-set and is the last actor.
C21_BookkeepingAtPerception ==
    [][/\ TurnBegins =>
            (played_in_turn' = played_in_turn \cup {Actor} /\ last_player' = Actor)
       /\ (last_player' /= last_player \/ ~(played_in_turn' \subseteq played_in_turn))
            => TurnBegins
       /\ ResponseFails => (Actor \in played_in_turn' /\ last_player' = Actor)]_vars

\* the second player of a two-player episode was given its first context
\* and failed to respond
C21_Witness ==
    /\ pc = "error" /\ numPlayers = 2 /\ turns = 1
    /\ Actor = 1 /\ is_initial_call[1]
    /\ last_player = 1 /\ 1 \in played_in_turn

\* the add_player calls of setup(), in the order they were made
AddPlayerTrace == SelectSeq(setup_calls, LAMBDA call : call[1] = "add_player")

\* C22: after setup there is one player proxy per player spec, added in
\* declaration order under the id equal to its index, and every player id
\* the environment was reset with is the id of a registered proxy.
C22_EveryEnvironmentIdHasAProxy ==
    pc /= "init" =>
        /\ players_by_id = {GM} \cup (0..(numSpecs - 1))
        /\ AddPlayerTrace = [i \in 1..numSpecs |-> <<"add_player", i - 1>>]
        /\ \A p \in DOMAIN observations : p \in players_by_id \ {GM}

\* the fragments the check of this turn read: in ta_master.py those above
\* the checked player's mark, in master.py those the wrapper was handed
ProcessedThisTurn == IF iteration = "ta_master" THEN Unseen ELSE NewlyRecorded

\* C23: request_violation after a turn is raised only by a marker in the
\* observation processed in that turn; a flag raised on an earlier turn is
\* not there any more when a later turn, whose observation has no marker,
\* makes its round-boundary check.
C23_ViolationDoesNotOutliveItsTurn ==
    [][(turns' = turns + 1 /\ pc' \in {"observe", "turn"}) =>
        /\ request_violation'
              => \E i \in 1..Len(ProcessedThisTurn) : HasMarker(ProcessedThisTurn[i])
        /\ (\A i \in 1..Len(ProcessedThisTurn) : ~HasMarker(ProcessedThisTurn[i]))
              => (~request_violation'
                  /\ (played_in_turn = players_by_id \ {GM} => rounds' = rounds + 1))]_vars

\* a one-player episode of ta_master.py: the first turn was flagged, the
\* second was not and closed the round
C23_Witness ==
    /\ iteration = "ta_master" /\ numPlayers = 1 /\ pc = "observe"
    /\ turns = 2 /\ violations = 1 /\ rounds = 1 /\ ~request_violation

\* the last call asked for the context of a player for which nothing was
\* ever recorded
MergedForUntouchedPlayer ==
    /\ lastCall.op = "observation" /\ lastCall.form = "none"
    /\ recorded[lastCall.player] = <<>>

\* C24: asking for the merged context of a registered player that never
\* received a fragment raises nothing and returns a "user" context without
\* any fragment line: the standard prompt alone when the player had not
\* been called yet at that moment, and no prompt when it had.
C24_UntouchedPlayerGetsPreambleOnly ==
    MergedForUntouchedPlayer =>
        /\ ~lastCall.raised
        /\ context.role = "user"
        /\ context.content.lines = <<>>
        /\ context.content.preamble = lastCall.initial
        /\ temp_observations[lastCall.player] = <<>>

\* the second player, never handed a fragment and never called, asked for
\* its context after the first player had received one
C24_Witness ==
    /\ MergedForUntouchedPlayer /\ lastCall.player = 1
    /\ Len(recorded[0]) >= 1
    /\ is_initial_call[1]
    /\ context = [role |-> "user", content |-> [preamble |-> TRUE, lines |-> <<>>]]

\* a call of observation() that was handed fragments and did not raise
MergeWithFragments ==
    /\ pc /= "init" /\ recorded' /= recorded
    /\ lastCall'.op = "observation" /\ ~lastCall'.raised

\* the buffer of the player of that call when the merge runs
BufferAtMerge ==
    (IF lastCall'.player \in DOMAIN temp_observations
     THEN temp_observations[lastCall'.player] ELSE <<>>) \o NewlyRecorded

\* C25: the merged context for player p has one line for every buffered
\* fragment whose sender is not p, bracketed sender name first, and no line
\* for a fragment p sent itself; the drain removes those from the buffer
\* as well.
C25_NoSelfEcho ==
    [][MergeWithFragments =>
        LET p == lastCall'.player
            others == FromOthers(BufferAtMerge, p)
            lines == context'.content.lines
        IN  /\ Len(lines) = Len(others)
            /\ \A k \in 1..Len(lines) :
                  /\ lines[k] = <<SenderName(others[k][1]), others[k][2]>>
                  /\ lines[k][1] /= SenderName(p)
            /\ temp_observations'[p] = <<>>]_vars

\* player 0 was handed its own message and a system message in one batch:
\* one line came out and the buffer is empty
C25_Witness ==
    /\ pc /= "init" /\ lastCall.player = 0 /\ lastCall.form = "seq"
    /\ Len(recorded[0]) = 2 /\ recorded[0][1][1] = 0 /\ recorded[0][2][1] = GM
    /\ context.content.lines = <<(<<SenderName(GM), recorded[0][2][2]>>)>>
    /\ temp_observations[0] = <<>>

\* a call observation(player_id, None)
NoneCall ==
    /\ pc /= "init" /\ is_initial_call' = is_initial_call
    /\ lastCall'.op = "observation" /\ lastCall'.form = "none"

\* what was pending for the player of that call
PendingAtCall ==
    IF lastCall'.player \in DOMAIN temp_observations
    THEN temp_observations[lastCall'.player] ELSE <<>>

\* C26: observation(player_id, None) appends nothing to any buffer, raises
\* nothing, and returns the "user" context merged from what was pending for
\* the player, which it drains; the other players' buffers are untouched.
C26_SentinelAppendsNothing ==
    [][NoneCall =>
        LET p == lastCall'.player
            others == FromOthers(PendingAtCall, p)
        IN  /\ recorded' = recorded
            /\ \A q \in DOMAIN temp_observations \ {p} :
                  temp_observations'[q] = temp_observations[q]
            /\ ~lastCall'.raised
            /\ context'.role = "user"
            /\ Len(context'.content.lines) = Len(others)
            /\ \A k \in 1..Len(others) : context'.content.lines[k] = LineOf(others[k])
            /\ temp_observations'[p] = <<>>
            /\ delivered'[p] = delivered[p] \o context'.content.lines]_vars

\* both players were handed a fragment, then the second was asked for its
\* context without a new observation
C26_Witness ==
    /\ lastCall.op = "observation" /\ lastCall.form = "none"
    /\ lastCall.player = 1 /\ ~lastCall.repeat
    /\ Len(recorded[0]) = 1 /\ Len(recorded[1]) = 1 /\ Len(delivered[1]) = 1
    /\ temp_observations[0] = <<>> /\ temp_observations[1] = <<>>
    /\ context.content.lines = <<>>

\* the play loop holds a context for the player it is about to call, or
\* has called
ContextHandedOver == pc \in {"turn", "step", "respond"}

\* C27: every context play() hands to a player carries the role "user":
\* the player's check of the role never fails, and no episode ends in that
\* failure.
C27_ContextsCarryUserRole ==
    [][/\ ContextHandedOver => context.role = "user"
       /\ (pc = "observe" /\ pc' /= pc) => pc' = "respond"]_vars

\* past the first turn: a context without the standard prompt, with a line
\* from the environment, is with the player
C27_Witness ==
    /\ pc \in {"turn", "respond"} /\ turns >= 1
    /\ context.role = "user"
    /\ ~context.content.preamble /\ Len(context.content.lines) >= 1

\* the payload the decoder was given has no entry for a configured player
PayloadLacksPlayer ==
    \E p \in Players : p \notin DOMAIN rewards.success

\* C28: when the payload lacks an entry for a configured player, the
\* decoder of every class fails and logs no metric.
C28_MissingPlayerIsFatal ==
    (pc \in {"decoded", "error"} /\ PayloadLacksPlayer) =>
        (pc = "error" /\ logged = <<>>)

\* env.step was called and raised
StepRaised == step_calls' = step_calls + 1 /\ turns' = turns

\* C29: a response goes to env.step once: the call is made from the turn
\* that produced the response and ends that turn.  When the call raises,
\* play() is left with the failure: no retry, no round advance, no
\* _on_after_game, no logging, then or later.
C29_StepFailureEndsPlay ==
    [][/\ step_calls' /= step_calls =>
            /\ step_calls' = step_calls + 1
            /\ pc \in {"respond", "step"}
            /\ pc' \in {"observe", "turn", "done", "error"}
       /\ turns' /= turns => (turns' = turns + 1 /\ step_calls' = step_calls + 1)
       /\ StepRaised =>
            /\ pc' = "error"
            /\ rounds' = rounds /\ logged' = logged
            /\ closes' = closes /\ after_game' = after_game
       /\ pc /= "error"]_vars

\* the second step of an episode raised, after a first that was answered
C29_Witness ==
    /\ pc = "error" /\ turns = 1 /\ step_calls = 2
    /\ logged = <<>> /\ after_game = 0

RoundStateChanges ==
    \/ played_in_turn' /= played_in_turn
    \/ last_player' /= last_player
    \/ request_violation' /= request_violation

\* an environment step was answered
StepAnswered == turns' = turns + 1

\* the player's call neither touches the environment nor the buffers: the
\* environment changes with reset and env.step only, what was handed out
\* and the buffers with a call of the observation wrapper only
RespondLeavesEnvironmentAlone ==
    /\ (observations' /= observations \/ current_player_id' /= current_player_id)
          => (pc = "init" \/ step_calls' = step_calls + 1)
    /\ (fetched' /= fetched \/ temp_observations' /= temp_observations)
          => (pc \in {"init", "observe", "start"} \/ StepAnswered)
    /\ pc = "turn" => UNCHANGED <<envVars, temp_observations>>

\* C30 as stated: the acted-set, the last actor and request_violation change
\* only with an answered environment step, and a player's response changes
\* neither the environment nor the buffers.
C30_RoundStateOnlyAfterStep ==
    [][/\ RoundStateChanges => StepAnswered
       /\ RespondLeavesEnvironmentAlone]_vars

\* C30 amended: the acted-set and the last actor are written when the
\* acting player is given its context, before the environment step, and the
\* acted-set is emptied at a round boundary after a step; request_violation
\* is written in the turn's call of step() (lowered before the environment
\* step, set after it) and, in master.py, by the observation wrapper, which
\* lowers it on every call.  A player's response changes neither the
\* environment nor the buffers.
C30_RoundStateWriters ==
    [][/\ TurnBegins => (Actor \in played_in_turn' /\ last_player' = Actor)
       /\ last_player' /= last_player => TurnBegins
       /\ played_in_turn' /= played_in_turn =>
            \/ TurnBegins
            \/ StepAnswered /\ rounds' = rounds + 1 /\ played_in_turn' = {}
       /\ request_violation' /= request_violation =>
            \/ step_calls' = step_calls + 1
            \/ iteration = "master" /\ NoneCall /\ ~request_violation'
       /\ RespondLeavesEnvironmentAlone]_vars

\* ta_master.py, second turn: the second player has been given its context
\* and is in the acted-set before the environment sees its response
C30_Witness ==
    /\ iteration = "ta_master" /\ pc = "respond"
    /\ turns = 1 /\ step_calls = 1
    /\ current_player_id = 1 /\ last_player = 1 /\ played_in_turn = {0, 1}


\* C31: when a process plays a second episode of an instance with the same
\* configuration and seed against a deterministic environment, whatever the
\* random generator was left at in between, the second episode has the same
\* acting players, fallback replies, round boundaries and logged metrics as
\* the first; every fallback reply is one of the player's candidates, or the
\* default reply when none is configured
C31_SameSeedSameEpisode ==
    /\ \A i \in 1..Len(trace) :
         trace[i].reply \in
             (IF custom_response = <<>> THEN {DefaultResponse}
              ELSE {custom_response[k] : k \in 1..Len(custom_response)})
    /\ (episode = 2 /\ pc = "done") =>
         /\ trace = earlier.trace
         /\ logged = earlier.logged

\* a second two-player episode has ended after three turns or more with both
\* candidate replies given and a round boundary, on a generator that was not
\* where the first episode had found it
C31_Witness ==
    /\ episode = 2
    /\ pc = "done"
    /\ numPlayers = 2
    /\ Len(trace) >= 3
    /\ trace = earlier.trace
    /\ \E i, j \in 1..Len(trace) : trace[i].reply /= trace[j].reply
    /\ \E i \in 1..Len(trace) : trace[i].boundary
    /\ \E i, j \in 1..Len(trace) : trace[i].player /= trace[j].player
    /\ logged /= <<>>

\* C32: a player's respond call that fails (a timeout) is treated as an
\* invalid move of that player: it raises the request violation of that
\* turn, is counted as one, the episode goes on with the next turn and no
\* round boundary is declared
C32_FailedResponseIsAViolation ==
    [][ResponseFails =>
          /\ request_violation'
          /\ violations' = violations + 1
          /\ rounds' = rounds
          /\ pc' \in {"observe", "turn"}]_vars

\* C33: a logged metric vector is consistent: aborted = 1 comes with
\* success = 0 and lose = 1, and success = 1 comes with lose = 0 and
\* aborted = 0
C33_LoggedVectorConsistent ==
    (\A key \in {METRIC_ABORTED, METRIC_SUCCESS, METRIC_LOSE} : LoggedUnder(key) /= {}) =>
        /\ LoggedValue(METRIC_ABORTED) = One =>
              LoggedValue(METRIC_SUCCESS) = 0 /\ LoggedValue(METRIC_LOSE) = One
        /\ LoggedValue(METRIC_SUCCESS) = One =>
              LoggedValue(METRIC_LOSE) = 0 /\ LoggedValue(METRIC_ABORTED) = 0

\* C34: the acted-set holds registered player ids only, the GM entry is
\* never in it, and so the test on its size (as many as players_by_id has
\* entries besides the GM's) is true exactly when every registered player is
\* in the set
C34_ActedAreRegistered ==
    LET registered == players_by_id \ {GM}
    IN  /\ GM \in players_by_id
        /\ played_in_turn \subseteq registered
        /\ (Cardinality(played_in_turn) = Cardinality(players_by_id) - 1)
               <=> (registered \subseteq played_in_turn)

\* a two-player episode past its first round boundary in which both players
\* are in the acted-set again and a request violation holds the boundary back
C34_Witness ==
    /\ numPlayers = 2
    /\ rounds >= 1
    /\ played_in_turn = {0, 1}
    /\ request_violation
    /\ InPlay

\* the lines of the fragments recorded for p that p did not send itself
DueLines(p) ==
    [k \in 1..Len(FromOthers(recorded[p], p)) |-> LineOf(FromOthers(recorded[p], p)[k])]

\* player p is called with `context` for the first time
FirstTurnOf(p) == pc /= "init" /\ is_initial_call[p] /\ ~is_initial_call'[p]

\* C35 as stated: no fragment is lost; the context a player is called with
\* on its turn holds every fragment recorded for it from another sender and
\* not handed to it before, whatever calls of the wrapper came in between
C35_NextTurnContextHoldsAllRecorded ==
    [][\A p \in Players :
          FirstTurnOf(p) => context.content.lines = DueLines(p)]_vars

\* C35 amended: every fragment recorded for a player from another sender is
\* put in the context returned by the call that recorded it and is pending
\* for no later one; the context of the last call holds the newest recorded
\* fragments only, so a player called with it is handed those and no
\* fragment of an earlier call whose context went elsewhere
C35_FragmentsLeaveWithTheRecordingCall ==
    (pc /= "init" /\ lastCall.op = "observation" /\ ~lastCall.raised) =>
        LET p == lastCall.player
            n == Len(context.content.lines)
        IN  /\ \A q \in Players : Len(delivered[q]) = Len(DueLines(q))
            /\ n <= Len(DueLines(p))
            /\ context.content.lines =
                   SubSeq(DueLines(p), Len(DueLines(p)) - n + 1, Len(DueLines(p)))

\* a player has been called with the context of the last call, which holds
\* one of the two fragments others sent it: the other left with the context
\* of an earlier call
C35_Witness ==
    /\ pc /= "init"
    /\ lastCall.op = "observation" /\ ~lastCall.raised
    /\ ~is_initial_call[lastCall.player]
    /\ Len(DueLines(lastCall.player)) = 2
    /\ Len(context.content.lines) = 1

\* every registered player is in the acted-set and the step left no request
\* violation
RoundCompleted == played_in_turn = players_by_id \ {GM} /\ ~request_violation'

\* C36: the step that ends the episode emits no round-advance notification,
\* even when it completes a round; a step that does not end it emits one
\* exactly when it completes a round, and nothing else emits any: the
\* notifications count the rounds completed by non-terminal steps
C36_NoRoundAdvanceOnTheLastStep ==
    [][/\ (StepAnswered /\ pc' = "done") => rounds' = rounds
       /\ (StepAnswered /\ pc' \notin {"done", "error"}) =>
              rounds' = rounds + (IF RoundCompleted THEN 1 ELSE 0)
       /\ (~StepAnswered \/ pc' = "error") => rounds' = rounds]_vars

\* a two-player episode ended on its fourth step with the players taking
\* turns and no violation: the second step completed a round and was
\* notified, the fourth completed one and was not
C36_Witness ==
    /\ pc = "done"
    /\ numPlayers = 2
    /\ turns = 4
    /\ alternating
    /\ played_in_turn = {0, 1}
    /\ ~request_violation
    /\ rounds = 1

\* the values the scorer reported under a key
Reported(key) == {scores[i][2] : i \in {j \in 1..Len(scores) : scores[j][1] = key}}

Scored == pc \in {"scored", "error"}

\* the value of the episode record under a key, 0 when the key is absent
Logged0(key) == Get(episode_interactions, key, 0)

\* C37 as stated, for either scorer: the bench score reported is NaN exactly
\* when the record's aborted metric is set and the logged bench score
\* otherwise; success, aborted and lose are reported as logged, 0 when absent
C37_ScorerPassesMetricsThrough ==
    Scored =>
        /\ pc = "scored"
        /\ (NaN \in Reported(BENCH_SCORE)) <=> (Logged0(METRIC_ABORTED) /= 0)
        /\ Logged0(METRIC_ABORTED) = 0 => Reported(BENCH_SCORE) = {Logged0(BENCH_SCORE)}
        /\ \A key \in {METRIC_SUCCESS, METRIC_ABORTED, METRIC_LOSE} :
              Reported(key) = {Logged0(key)}

\* C37 amended: the scorer of the TextArena games reports NaN as bench score
\* when the aborted metric is not 0 and the logged bench score otherwise, and
\* success, aborted and lose as logged, each 0 when absent.  The scorer of
\* the reference game fails when aborted or success is absent (or the player
\* an aborted episode was aborted at); otherwise it reports aborted as logged,
\* lose as 1 - success, no success, and as bench score 100 * success when
\* aborted is 0 and NaN when it is not
C37_WhatTheScorersReport ==
    Scored =>
        IF scorer = "TextArenaScorer"
        THEN /\ pc = "scored"
             /\ Reported(BENCH_SCORE) =
                    {IF Logged0(METRIC_ABORTED) /= 0 THEN NaN ELSE Logged0(BENCH_SCORE)}
             /\ \A key \in {METRIC_SUCCESS, METRIC_ABORTED, METRIC_LOSE} :
                   Reported(key) = {Logged0(key)}
        ELSE /\ pc = "error" <=>
                    \/ METRIC_ABORTED \notin DOMAIN episode_interactions
                    \/ METRIC_SUCCESS \notin DOMAIN episode_interactions
                    \/ /\ episode_interactions[METRIC_ABORTED] = One
                       /\ "Aborted at Player" \notin DOMAIN episode_interactions
             /\ pc = "scored" =>
                    /\ Reported(METRIC_ABORTED) = {episode_interactions[METRIC_ABORTED]}
                    /\ Reported(METRIC_SUCCESS) = {}
                    /\ Reported(METRIC_LOSE) = {One - episode_interactions[METRIC_SUCCESS]}
                    /\ Reported(BENCH_SCORE) =
                           {IF episode_interactions[METRIC_ABORTED] = 0
                            THEN 100 * episode_interactions[METRIC_SUCCESS] ELSE NaN}

\* the scorer of the TextArena games was given an aborted episode with a
\* bench score and no lose entry: it reported NaN, and 0 for lose
C37_Witness ==
    /\ pc = "scored"
    /\ scorer = "TextArenaScorer"
    /\ DOMAIN episode_interactions = {METRIC_ABORTED, METRIC_SUCCESS, BENCH_SCORE}
    /\ episode_interactions[METRIC_ABORTED] = One
    /\ episode_interactions[BENCH_SCORE] = One
    /\ Reported(BENCH_SCORE) = {NaN}
    /\ Reported(METRIC_LOSE) = {0}

\* C38: played against the same environment trace, master.py has declared
\* as many round boundaries and counted as many request violations at the
\* end of the episode as ta_master.py
C38_IterationsAgree ==
    (episode = 2 /\ iteration = "master" /\ pc = "done") =>
        /\ rounds = earlier.rounds
        /\ violations = earlier.violations

\* C39: an episode of the reference game calls at most two players, player 1
\* and then player 2; an invalid response of player 1 ends the game aborted
\* at player 1 with player 2 never called and no context set for it; the
\* response of player 2 ends the game, valid or not
C39_AtMostTwoTurns ==
    /\ prompted \in {<<>>, <<Giver>>, <<Giver, Follower>>}
    /\ (pc = "done") <=> terminate
    /\ (prompted /= <<>> /\ ~PatternHolds(replies[Giver])) =>
          /\ prompted = <<Giver>>
          /\ pc = "done"
          /\ ref_aborted /\ aborted_at_player = Giver
          /\ follower_context = <<>>
          /\ ~ref_success
    /\ Len(prompted) = 2 =>
          /\ pc = "done"
          /\ ref_aborted <=> ~PatternHolds(replies[Follower])
          /\ ref_aborted => aborted_at_player = Follower

\* an episode has ended after both players were called: player 1 gave a
\* valid expression, player 2 an answer that does not fit the pattern
C39_Witness ==
    /\ pc = "done"
    /\ prompted = <<Giver, Follower>>
    /\ ~PatternHolds(replies[Follower])
    /\ ref_aborted
    /\ aborted_at_player = Follower
    /\ LoggedUnder("Aborted at Player") /= {}
====
